---- MODULE Spec2Model ----
(***************************************************************************)
(* Model of the HTTP/1.1 transport layer of src/plugins/http/http.c: one   *)
(* connection record (server or client), its four byte queues, the framing *)
(* parser and the seven-state machine with the callbacks that drive it.    *)
(*                                                                         *)
(* Bytes are one-character strings, buffers are sequences of bytes.  C     *)
(* offsets are 0-based: At(buf, i) reads buf[i].  Unsigned arithmetic      *)
(* wraps modulo U32Mod / U64Mod, which stand for 2^32 and 2^64 at a width  *)
(* the model checker's integers can hold.                                  *)
(***************************************************************************)
EXTENDS Integers, Sequences, FiniteSets, TLC

\* sequencing: Op applied to the value v, evaluated once
Let(v, Op(_)) == Op(v)

(* ------------------------------------------------------------------ *)
(* Bounds of the model                                                  *)
(* ------------------------------------------------------------------ *)
\* width, in bits, the model gives to u32 values
U32Bits == 12
\* width, in bits, the model gives to u64 values
U64Bits == 14
U32Mod == 2 ^ U32Bits
U64Mod == 2 ^ U64Bits
U32(x) == x % U32Mod
U64(x) == x % U64Mod
\* (int) of a u32 value
ToInt(x) == IF x >= U32Mod \div 2 THEN x - U32Mod ELSE x

Min(a, b) == IF a < b THEN a ELSE b
Max(a, b) == IF a > b THEN a ELSE b
SetMin(S) == CHOOSE x \in S : \A y \in S : x <= y
SetMax(S) == CHOOSE x \in S : \A y \in S : x >= y

(* ------------------------------------------------------------------ *)
(* Bytes                                                                *)
(* ------------------------------------------------------------------ *)
CR == "\r"
LF == "\n"
SP == " "
HT == "\t"
CRLF == <<CR, LF>>
Digits == <<"0", "1", "2", "3", "4", "5", "6", "7", "8", "9">>
UpperCase == {"A", "B", "C", "D", "E", "F", "G", "H", "I", "J", "K", "L", "M",
              "N", "O", "P", "Q", "R", "S", "T", "U", "V", "W", "X", "Y", "Z"}
\* bytes whose ASCII code is below 'A' among the bytes the model uses
BelowA == {CR, LF, SP, HT, "*", "/", ":", "?", ".", "-", "=", "&",
           "0", "1", "2", "3", "4", "5", "6", "7", "8", "9"}
isdigit(c) == \E d \in 1..10 : Digits[d] = c
DigitVal(c) == (CHOOSE d \in 1..10 : Digits[d] = c) - 1
\* the digit character of d in 0..9
DigitChar(d) == Digits[d + 1]

\* buf[i] with a C (0-based) index; a read outside the vector yields "?"
At(buf, i) == IF i >= 0 /\ i < Len(buf) THEN buf[i + 1] ELSE "?"
\* !memcmp (vec + start, str, slen)
MemEq(vec, start, str) ==
  /\ start >= 0
  /\ start + Len(str) <= Len(vec)
  /\ \A k \in 1..Len(str) : vec[start + k] = str[k]

v_find_index(vec, offset, num, str) ==
                 Let(ToInt(offset), LAMBDA start_index :
          Let(Len(str), LAMBDA slen :
          Let(Len(vec), LAMBDA vlen :
     IF vlen <= slen THEN -1
     ELSE IF num # 0 /\ num < slen THEN -1
     ELSE         Let(vlen - slen, LAMBDA end0 :
                       Let(IF num # 0 THEN Min(end0, U32(offset + num - slen))
                           ELSE end0, LAMBDA end_index :
                  Let({s \in start_index..end_index : MemEq(vec, s, str)}, LAMBDA hits :
             IF hits = {} THEN -1 ELSE SetMin(hits)))))))

(* ------------------------------------------------------------------ *)
(* Parser.  Every parser takes the connection record and returns        *)
(* [rv, ec, hc]: the return value, the status code written through the  *)
(* out parameter (NoEc when none was written) and the record as the     *)
(* parser left it.                                                      *)
(* ------------------------------------------------------------------ *)
NoEc == "UNSET"
Ok(hc) == [rv |-> 0, ec |-> NoEc, hc |-> hc]
Fail(hc, ec) == [rv |-> -1, ec |-> ec, hc |-> hc]

http_identify_optional_query(hc) ==
        Let({i \in hc.target_path_offset..(hc.target_path_offset + hc.target_path_len - 1) :
               At(hc.rx_buf, i) = "?"}, LAMBDA qs :
     IF qs = {} THEN hc
     ELSE      Let(SetMin(qs), LAMBDA i :
                  Let(i + 1, LAMBDA qoff :
                  Let(hc.target_path_offset + hc.target_path_len - qoff, LAMBDA qlen :
             [hc EXCEPT !.target_query_offset = qoff,
                        !.target_query_len = qlen,
                        !.target_path_len = hc.target_path_len - qlen - 1]))))

http_get_target_form(hc) ==
  IF At(hc.rx_buf, hc.target_path_offset) = "*" /\ hc.target_path_len = 1
  THEN Ok([hc EXCEPT !.target_form = "ASTERISK"])
  ELSE IF At(hc.rx_buf, hc.target_path_offset) = "/"
  THEN Ok(http_identify_optional_query(
            [hc EXCEPT !.target_path_len = hc.target_path_len - 1,
                       !.target_path_offset = hc.target_path_offset + 1,
                       !.target_form = "ORIGIN"]))
  ELSE IF v_find_index(hc.rx_buf, hc.target_path_offset, hc.target_path_len,
                       <<":", "/", "/">>) > 0
  THEN Ok(http_identify_optional_query([hc EXCEPT !.target_form = "ABSOLUTE"]))
  ELSE IF \E i \in hc.target_path_offset..(hc.target_path_offset + hc.target_path_len - 1) :
            At(hc.rx_buf, i) = ":" /\ isdigit(At(hc.rx_buf, i + 1))
  THEN Ok([hc EXCEPT !.target_form = "AUTHORITY"])
  ELSE Fail(hc, NoEc)

\* the part of http_parse_request_line after the method was accepted
parse_version_and_target(hc, next_line_offset) ==
       Let(v_find_index(hc.rx_buf, U32(next_line_offset - 11), 11,
                        <<SP, "H", "T", "T", "P", "/">>), LAMBDA i :
     IF i < 0 THEN Fail(hc, "BAD_REQUEST")
     ELSE IF isdigit(At(hc.rx_buf, i + 6)) /\ At(hc.rx_buf, i + 6) # "1"
     THEN Fail(hc, "HTTP_VERSION_NOT_SUPPORTED")
     ELSE IF ~isdigit(At(hc.rx_buf, i + 6)) THEN Fail(hc, "BAD_REQUEST")
     ELSE               Let(i - hc.target_path_offset, LAMBDA target_len :
             IF target_len < 1 THEN Fail(hc, "BAD_REQUEST")
             ELSE      Let(http_get_target_form(
                             [hc EXCEPT !.target_path_len = target_len,
                                        !.target_query_offset = 0,
                                        !.target_query_len = 0]), LAMBDA r :
                     IF r.rv # 0 THEN Fail(r.hc, "BAD_REQUEST")
                     ELSE Ok([r.hc EXCEPT !.rx_buf_offset = next_line_offset]))))

http_parse_request_line(hc) ==
       Let(v_find_index(hc.rx_buf, 8, 0, CRLF), LAMBDA i :
         Let([hc EXCEPT !.control_data_len = i + 2], LAMBDA hc1 :
                      Let(i + 2, LAMBDA next_line_offset :
                   Let(IF At(hc.rx_buf, 0) = CR /\ At(hc.rx_buf, 1) = LF THEN 2 ELSE 0, LAMBDA method_offset :
     IF i < 0 THEN Fail(hc, "BAD_REQUEST")
     ELSE IF Len(hc.rx_buf) < next_line_offset + 2 THEN Fail(hc1, "BAD_REQUEST")
     ELSE IF MemEq(hc.rx_buf, method_offset, <<"G", "E", "T", SP>>)
     THEN parse_version_and_target(
            [hc1 EXCEPT !.method = "GET", !.target_path_offset = method_offset + 4],
            next_line_offset)
     ELSE IF MemEq(hc.rx_buf, method_offset, <<"P", "O", "S", "T", SP>>)
     THEN parse_version_and_target(
            [hc1 EXCEPT !.method = "POST", !.target_path_offset = method_offset + 5],
            next_line_offset)
     \* rx_buf[method_offset] - 'A' <= 'Z' - 'A', in int arithmetic
     ELSE IF At(hc.rx_buf, method_offset) \in UpperCase \cup BelowA
     THEN Fail(hc1, "NOT_IMPLEMENTED")
     ELSE Fail(hc1, "BAD_REQUEST")))))

http_parse_status_line(hc) ==
         Let(hc.rx_buf, LAMBDA buf :
       Let(v_find_index(buf, 0, 0, CRLF), LAMBDA i :
         Let([hc EXCEPT !.control_data_len = i + 2], LAMBDA hc1 :
                      Let(i + 2, LAMBDA next_line_offset :
      \* do { p++; if (p == end) fail; } while (*p == ' ')
           Let({p \in 9..(i - 1) : At(buf, p) # SP}, LAMBDA nonsp :
     IF i < 0 THEN Fail(hc, NoEc)
     ELSE IF i < 12 THEN Fail(hc, NoEc)
     ELSE IF Len(buf) < next_line_offset + 2 THEN Fail(hc1, NoEc)
     ELSE IF ~MemEq(buf, 0, <<"H", "T", "T", "P", "/", "1", ".">>) THEN Fail(hc1, NoEc)
     ELSE IF ~isdigit(At(buf, 7)) THEN Fail(hc1, NoEc)
     ELSE IF At(buf, 8) # SP THEN Fail(hc1, NoEc)
     ELSE IF nonsp = {} THEN Fail(hc1, NoEc)
     ELSE      Let(SetMin(nonsp), LAMBDA p :
             IF i - p < 3 THEN Fail(hc1, NoEc)
             ELSE IF \E k \in 0..2 : ~isdigit(At(buf, p + k)) THEN Fail(hc1, NoEc)
             ELSE                Let(100 * DigitVal(At(buf, p))
                                     + 10 * DigitVal(At(buf, p + 1))
                                     + DigitVal(At(buf, p + 2)), LAMBDA status_code :
                     IF status_code < 100 \/ status_code > 599 THEN Fail(hc1, NoEc)
                     ELSE Ok([hc1 EXCEPT !.status_code = status_code,
                                         !.rx_buf_offset = next_line_offset]))))))))

http_identify_headers(hc) ==
  IF At(hc.rx_buf, hc.rx_buf_offset) = CR /\ At(hc.rx_buf, hc.rx_buf_offset + 1) = LF
  THEN Ok([hc EXCEPT !.headers_len = 0,
                     !.control_data_len = hc.control_data_len + 2])
  ELSE      Let(v_find_index(hc.rx_buf, hc.rx_buf_offset, 0, <<CR, LF, CR, LF>>), LAMBDA i :
          IF i < 0 THEN Fail(hc, "BAD_REQUEST")
          ELSE         Let(i - hc.rx_buf_offset + 2, LAMBDA hlen :
                  Ok([hc EXCEPT !.headers_offset = hc.rx_buf_offset,
                                !.headers_len = hlen,
                                !.control_data_len = hc.control_data_len + hlen + 2])))

\* the digit loop of http_identify_message_body: [ok, val]
RECURSIVE parse_content_length(_, _, _, _)
parse_content_length(buf, p, n, body_len) ==
  IF n = 0 THEN [ok |-> TRUE, val |-> body_len]
  ELSE IF ~isdigit(At(buf, p)) THEN [ok |-> FALSE, val |-> body_len]
  ELSE                 Let(U64(body_len * 10 + DigitVal(At(buf, p))), LAMBDA new_body_len :
          IF new_body_len < body_len THEN [ok |-> FALSE, val |-> body_len]
          ELSE parse_content_length(buf, p + 1, n - 1, new_body_len))

http_identify_message_body(hc) ==
         Let(hc.rx_buf, LAMBDA buf :
         Let([hc EXCEPT !.body_len = 0], LAMBDA hc0 :
       Let(v_find_index(buf, hc.headers_offset, hc.headers_len,
                        <<"C", "o", "n", "t", "e", "n", "t", "-",
                          "L", "e", "n", "g", "t", "h", ":">>), LAMBDA i :
         Let(i + 15, LAMBDA off :
         Let([hc0 EXCEPT !.rx_buf_offset = off], LAMBDA hc1 :
       Let(v_find_index(buf, off, hc.headers_len, CRLF), LAMBDA j :
               Let(j - off, LAMBDA value_len :
           Let({p \in off..(j - 1) : At(buf, p) # SP /\ At(buf, p) # HT}, LAMBDA nonws :
     IF hc.headers_len = 0 THEN Ok(hc0)
     ELSE IF i < 0 THEN Ok(hc0)
     ELSE IF j < 0 THEN Fail(hc1, "BAD_REQUEST")
     ELSE IF value_len < 1 THEN Fail(hc1, "BAD_REQUEST")
     ELSE IF nonws = {} THEN Fail(hc1, "BAD_REQUEST")
     ELSE                Let(SetMin(nonws), LAMBDA value_start :
                       Let(SetMax(nonws), LAMBDA value_end :
               Let(parse_content_length(buf, value_start, value_end - value_start + 1, 0), LAMBDA r :
             IF ~r.ok THEN Fail(hc1, "BAD_REQUEST")
             ELSE Ok([hc1 EXCEPT !.body_len = r.val,
                                 !.body_offset = hc.headers_offset + hc.headers_len + 2]))))))))))))

(* ------------------------------------------------------------------ *)
(* Sizes                                                                *)
(* ------------------------------------------------------------------ *)
\* sizeof (http_msg_t), in bytes of the app queues
MsgSize == 2
\* sizeof (uword)
PtrSize == 1
\* bytes the model gives to one KiB of the code's queue thresholds
KiB == 2
\* capacity of the transport rx / tx queues and of the app rx queue
TsRxSize == 64
TsTxSize == 100
AppRxSize == 42
\* messages the peer puts on the wire, messages the application submits
MaxPeerMsgs == 2
MaxAppMsgs == 1
MaxFlowAppMsgs == 2
MaxLifePeerMsgs == 1
MaxLifeAppMsgs == 1
\* longest Content-Length value the parse specification offers, in digits
MaxDigits == 5
\* value at which the counters of requests saturate
MaxCount == 2

HTTP_FIFO_THRESH == 16 * KiB

(* ------------------------------------------------------------------ *)
(* The connection record and the bundle a callback works on             *)
(* ------------------------------------------------------------------ *)
NoTxBuf == [init |-> FALSE, type |-> "FIFO", len |-> 0, offset |-> 0, data |-> <<>>]

\* a record as pool_get_zero / clib_memset (hc, 0, ...) leaves it
ZeroConn ==
  [is_server |-> FALSE, state |-> "LISTEN", http_state |-> "IDLE",
   rx_buf |-> <<>>, rx_buf_offset |-> 0, control_data_len |-> 0,
   headers_offset |-> 0, headers_len |-> 0, body_offset |-> 0, body_len |-> 0,
   target_path_offset |-> 0, target_path_len |-> 0,
   target_query_offset |-> 0, target_query_len |-> 0,
   target_form |-> "ORIGIN", method |-> "GET", status_code |-> 0,
   to_recv |-> 0, tx_buf |-> NoTxBuf,
   timer_handle |-> "INVALID", pending_timer |-> 0,
   app_name |-> "NULL"]

(* ------------------------------------------------------------------ *)
(* Handoff messages (http_msg_t)                                        *)
(* ------------------------------------------------------------------ *)
Msg(type, method, code, dtype, len, c) ==
  [type |-> type, method_type |-> method, code |-> code, dtype |-> dtype, len |-> len,
   target_form |-> c.target_form,
   target_path_offset |-> c.target_path_offset, target_path_len |-> c.target_path_len,
   target_query_offset |-> c.target_query_offset, target_query_len |-> c.target_query_len,
   headers_offset |-> c.headers_offset, headers_len |-> c.headers_len,
   body_offset |-> c.body_offset, body_len |-> c.body_len]

NoMsg == Msg("NONE", "GET", "NONE", "INLINE", 0, ZeroConn)

VARIABLES
  hc,          \* the connection record (http_conn_t)
  alloc,       \* "template" | "conn" | "failed" | "freed": where the record lives
  ts_rx,       \* transport session rx queue: bytes received from the peer
  rx_pos,      \* number of bytes taken off ts_rx so far
  ts_tx,       \* transport session tx queue: bytes to send to the peer
  as_rx_len,   \* bytes held by the app session rx queue
  as_rx_ntf,   \* want-dequeue-notification flag of the app session rx queue
  app_rx_log,  \* what the app session rx queue received, in order, since the
               \* last handoff was attempted
  as_tx,       \* app session tx queue: cells submitted by the application
  ts_tx_ntf,   \* want-dequeue-notification flag of the transport tx queue
  sess,        \* the sessions around the record: transport state, requests made
  peer,        \* the remote end: what it still has to put on the wire
  napp,        \* messages the application has submitted
  ev           \* what the last callback did

vars == <<hc, alloc, ts_rx, rx_pos, ts_tx, as_rx_len, as_rx_ntf, app_rx_log,
          as_tx, ts_tx_ntf, sess, peer, napp, ev>>

\* the bytes of hc->app_name
AppName == <<"n">>

NoSp == [max_burst_size |-> 0, bytes_dequeued |-> 0, flags |-> {}]

\* the state a callback reads and writes, with the trace of what it did:
\* ops (effects on queues and sessions), trans (http_state changes made by
\* handlers), res (handler results), asserts (ASSERTs whose condition failed),
\* ec (the status code an error path answered with)
Bundle(cb) ==
  [hc |-> hc, ts_rx |-> ts_rx, rx_pos |-> rx_pos, ts_tx |-> ts_tx,
   as_rx_len |-> as_rx_len, as_rx_ntf |-> as_rx_ntf, log |-> app_rx_log,
   as_tx |-> as_tx, ts_tx_ntf |-> ts_tx_ntf, sess |-> sess, sp |-> NoSp,
   cb |-> cb, ops |-> <<>>, trans |-> <<>>, res |-> <<>>, asserts |-> {}, ret |-> 0,
   app_name |-> AppName,
   ec |-> NoEc, pre_state |-> hc.state,
   msg |-> IF Len(as_tx) >= MsgSize /\ as_tx[1].k = "msg" THEN as_tx[1].m ELSE NoMsg,
   pre |-> hc.http_state, pre_to_recv |-> hc.to_recv,
   pre_ts_rx |-> Len(ts_rx), pre_ts_tx |-> Len(ts_tx), pre_as_rx |-> as_rx_len]

Commit(st) ==
  /\ hc' = st.hc
  /\ ts_rx' = st.ts_rx
  /\ rx_pos' = st.rx_pos
  /\ ts_tx' = st.ts_tx
  /\ as_rx_len' = st.as_rx_len
  /\ as_rx_ntf' = st.as_rx_ntf
  /\ app_rx_log' = st.log
  /\ as_tx' = st.as_tx
  /\ ts_tx_ntf' = st.ts_tx_ntf
  /\ sess' = st.sess
  /\ ev' = [cb |-> st.cb, ops |-> st.ops, trans |-> st.trans, res |-> st.res,
            asserts |-> st.asserts, ret |-> st.ret,
            ec |-> st.ec, pre_state |-> st.pre_state, msg |-> st.msg, pre |-> st.pre, pre_to_recv |-> st.pre_to_recv,
            pre_ts_rx |-> st.pre_ts_rx, pre_ts_tx |-> st.pre_ts_tx,
            pre_as_rx |-> st.pre_as_rx, sp |-> st.sp]

Op(st, o) == [st EXCEPT !.ops = Append(@, o)]
Result(st, h, r) == [st EXCEPT !.res = Append(@, <<h, r>>)]
AssertThat(st, name, cond) == IF cond THEN st ELSE [st EXCEPT !.asserts = @ \cup {name}]

\* http_state_change that writes the debug line and forgets the assignment
http_state_change_unassigned(st, s) ==
  [st EXCEPT !.trans = Append(@, <<st.hc.http_state, s>>)]

http_state_change(st, s) ==
  [st EXCEPT !.hc.http_state = s, !.trans = Append(@, <<st.hc.http_state, s>>)]

http_state_is_tx_valid(c) ==
  c.http_state \in {"APP_IO_MORE_DATA", "WAIT_APP_REPLY", "WAIT_APP_METHOD"}

http_state_is_rx_valid(c) ==
  c.http_state \in {"WAIT_SERVER_REPLY", "CLIENT_IO_MORE_DATA", "WAIT_CLIENT_METHOD"}

\* session layer notifications to the application session
session_transport_closing_notify(st) == Op(st, "closing")
session_transport_closed_notify(st) == Op(st, "closed")
session_transport_reset_notify(st) == Op(st, "reset")
session_transport_delete_notify(st) == Op(st, "delete")
app_worker_rx_notify(st) == Op(st, "rx_notify")

\* vnet_disconnect_session is counted in sess.ndisc, which saturates at MaxCount
http_disconnect_transport(st) ==
  Op([st EXCEPT !.hc.state = "CLOSED",
                !.sess.ndisc = Min(@ + 1, MaxCount)], "disconnect")

(* ------------------------------------------------------------------ *)
(* Byte queues (svm_fifo)                                               *)
(* ------------------------------------------------------------------ *)
Drop(q, n) == SubSeq(q, n + 1, Len(q))
Take(q, n) == SubSeq(q, 1, n)

\* svm_fifo_enqueue on the transport tx queue: [rv, st]; a full queue is an
\* error, a queue with less room takes what fits
svm_fifo_enqueue_ts_tx(st, data) ==
          Let(TsTxSize - Len(st.ts_tx), LAMBDA free :
       Let(Min(free, Len(data)), LAMBDA n :
     IF free = 0 THEN [rv |-> -2, st |-> st]
     ELSE [rv |-> n,
           st |-> Op([st EXCEPT !.ts_tx = @ \o Take(data, n)], "ts_tx_enq")]))

\* svm_fifo_enqueue_segments (as->rx_fifo, {msg, data}, allow_partial = 0):
\* all or nothing.  The log starts again with every handoff.
svm_fifo_enqueue_msg_as_rx(st, msg, data) ==
          Let(AppRxSize - st.as_rx_len, LAMBDA free :
       Let(MsgSize + Len(data), LAMBDA n :
     IF free < n \/ free = 0 THEN [rv |-> -2, st |-> [st EXCEPT !.log = <<>>]]
     ELSE [rv |-> n,
           st |-> Op([st EXCEPT !.as_rx_len = @ + n,
                                !.log = <<[k |-> "msg", m |-> msg, pos |-> 0, bytes |-> <<>>],
                                          [k |-> "data", m |-> NoMsg, pos |-> st.rx_pos,
                                           bytes |-> data]>>],
                     "as_rx_enq")]))

\* svm_fifo_enqueue_segments (as->rx_fifo, seg, 1, allow_partial = 0)
svm_fifo_enqueue_seg_as_rx(st, data) ==
          Let(AppRxSize - st.as_rx_len, LAMBDA free :
       Let(Len(data), LAMBDA n :
     IF free < n \/ free = 0 THEN [rv |-> -2, st |-> st]
     ELSE [rv |-> n,
           st |-> Op([st EXCEPT !.as_rx_len = @ + n,
                                !.log = Append(@, [k |-> "data", m |-> NoMsg, pos |-> st.rx_pos,
                                                   bytes |-> data])],
                     "as_rx_enq")]))

\* svm_fifo_dequeue_drop (ts->rx_fifo, len)
svm_fifo_dequeue_drop_ts_rx(st, len) ==
       Let(Min(len, Len(st.ts_rx)), LAMBDA n :
     Op([st EXCEPT !.ts_rx = Drop(@, n), !.rx_pos = @ + n], "ts_rx_drop"))

\* svm_fifo_dequeue_drop_all (ts->rx_fifo)
svm_fifo_dequeue_drop_all_ts_rx(st) ==
  Op([st EXCEPT !.ts_rx = <<>>, !.rx_pos = @ + Len(st.ts_rx)], "ts_rx_drop_all")

\* svm_fifo_dequeue_drop_all (ts->tx_fifo)
svm_fifo_dequeue_drop_all_ts_tx(st) ==
  Op([st EXCEPT !.ts_tx = <<>>], "ts_tx_drop_all")

\* svm_fifo_dequeue_drop_all (as->tx_fifo)
svm_fifo_dequeue_drop_all_as_tx(st) ==
  Op([st EXCEPT !.as_tx = <<>>], "as_tx_drop_all")

(* ------------------------------------------------------------------ *)
(* Reading the transport rx queue                                       *)
(* ------------------------------------------------------------------ *)
http_read_message(st) ==
             Let(Len(st.ts_rx), LAMBDA max_deq :
     IF max_deq = 0 THEN [rv |-> -1, st |-> st]
     ELSE [rv |-> 0,
           st |-> [st EXCEPT !.hc.rx_buf = st.ts_rx \o Drop(@, max_deq)]])

http_read_message_drop(st, len) ==
  [svm_fifo_dequeue_drop_ts_rx(st, len) EXCEPT !.hc.rx_buf = <<>>]

http_read_message_drop_all(st) ==
  [svm_fifo_dequeue_drop_all_ts_rx(st) EXCEPT !.hc.rx_buf = <<>>]

(* ------------------------------------------------------------------ *)
(* Status codes and formatting                                          *)
(* ------------------------------------------------------------------ *)
\* the registered status codes: <<number, enum name, text>>
StatusTable ==
  << <<100, "CONTINUE", <<"1", "0", "0", SP, "C", "o", "n", "t", "i", "n", "u", "e">>>>,
     <<200, "OK", <<"2", "0", "0", SP, "O", "K">>>>,
     <<201, "CREATED", <<"2", "0", "1", SP, "C", "r", "e", "a", "t", "e", "d">>>>,
     <<300, "MULTIPLE_CHOICES", <<"3", "0", "0", SP, "M", "u", "l", "t", "i", "p", "l", "e", SP, "C", "h", "o", "i", "c", "e", "s">>>>,
     <<400, "BAD_REQUEST", <<"4", "0", "0", SP, "B", "a", "d", SP, "R", "e", "q", "u", "e", "s", "t">>>>,
     <<404, "NOT_FOUND", <<"4", "0", "4", SP, "N", "o", "t", SP, "F", "o", "u", "n", "d">>>>,
     <<500, "INTERNAL_ERROR", <<"5", "0", "0", SP, "I", "n", "t", "e", "r", "n", "a", "l", SP, "S", "e", "r", "v", "e", "r", SP, "E", "r", "r", "o", "r">>>>,
     <<501, "NOT_IMPLEMENTED", <<"5", "0", "1", SP, "N", "o", "t", SP, "I", "m", "p", "l", "e", "m", "e", "n", "t", "e", "d">>>>,
     <<505, "HTTP_VERSION_NOT_SUPPORTED", <<"5", "0", "5", SP, "H", "T", "T", "P", SP, "V", "e", "r", "s", "i", "o", "n", SP, "N", "o", "t", SP, "S", "u", "p", "p", "o", "r", "t", "e", "d">>>> >>

StatusNames == {StatusTable[i][2] : i \in 1..Len(StatusTable)}
\* code >= HTTP_N_STATUS
InvalidStatus(code) == code \notin StatusNames
http_status_code_str(code) ==
  StatusTable[CHOOSE i \in 1..Len(StatusTable) : StatusTable[i][2] = code][3]

\* sc_by_u16 filled by the five loops only, without the registered codes
sc_by_u16_buckets_only(c) ==
  IF c >= 100 /\ c < 200 THEN "CONTINUE"
  ELSE IF c >= 200 /\ c < 300 THEN "OK"
  ELSE IF c >= 300 /\ c < 400 THEN "MULTIPLE_CHOICES"
  ELSE IF c >= 400 /\ c < 500 THEN "BAD_REQUEST"
  ELSE IF c >= 500 /\ c < 600 THEN "INTERNAL_ERROR"
  ELSE "ZERO"

\* hm->sc_by_u16[c] as http_transport_init fills it
sc_by_u16(c) ==
  IF \E i \in 1..Len(StatusTable) : StatusTable[i][1] = c
  THEN StatusTable[CHOOSE i \in 1..Len(StatusTable) : StatusTable[i][1] = c][2]
  ELSE IF c >= 100 /\ c < 200 THEN "CONTINUE"
  ELSE IF c >= 200 /\ c < 300 THEN "OK"
  ELSE IF c >= 300 /\ c < 400 THEN "MULTIPLE_CHOICES"
  ELSE IF c >= 400 /\ c < 500 THEN "BAD_REQUEST"
  ELSE IF c >= 500 /\ c < 600 THEN "INTERNAL_ERROR"
  ELSE "ZERO"

\* format "%llu"
RECURSIVE FormatU(_)
FormatU(n) == IF n < 10 THEN <<DigitChar(n)>>
              ELSE FormatU(n \div 10) \o <<DigitChar(n % 10)>>

\* format_clib_timebase_time of the current time (one fixed instant)
DateNow == <<"D">>
\* hc->host
HostName == <<"h", ":", "1">>

StrHTTP11 == <<"H", "T", "T", "P", "/", "1", ".", "1", SP>>
StrDate == <<"D", "a", "t", "e", ":", SP>>
StrGMT == <<SP, "G", "M", "T">>
StrConnClose == <<"C", "o", "n", "n", "e", "c", "t", "i", "o", "n", ":", SP, "c", "l", "o", "s", "e">>
StrContentLength == <<"C", "o", "n", "t", "e", "n", "t", "-", "L", "e", "n", "g", "t", "h", ":", SP>>
StrServer == <<"S", "e", "r", "v", "e", "r", ":", SP>>
StrHost == <<"H", "o", "s", "t", ":", SP>>
StrUserAgent == <<"U", "s", "e", "r", "-", "A", "g", "e", "n", "t", ":", SP>>
StrVersion == <<SP, "H", "T", "T", "P", "/", "1", ".", "1">>

http_error_template(status) ==
  StrHTTP11 \o status \o CRLF \o StrDate \o DateNow \o StrGMT \o CRLF
  \o StrConnClose \o CRLF \o StrContentLength \o <<"0">> \o CRLF \o CRLF

http_response_template(status, name, body_len, tail) ==
  StrHTTP11 \o status \o CRLF \o StrDate \o DateNow \o StrGMT \o CRLF
  \o StrServer \o name \o CRLF \o StrContentLength \o FormatU(body_len) \o CRLF \o tail

http_get_request_template(target, host, agent, tail) ==
  <<"G", "E", "T", SP>> \o target \o StrVersion \o CRLF \o StrHost \o host \o CRLF
  \o StrUserAgent \o agent \o CRLF \o tail

http_post_request_template(target, host, agent, body_len, tail) ==
  <<"P", "O", "S", "T", SP>> \o target \o StrVersion \o CRLF \o StrHost \o host \o CRLF
  \o StrUserAgent \o agent \o CRLF \o StrContentLength \o FormatU(body_len) \o CRLF \o tail

\* [rv, st]: the number of bytes the transport tx queue took
http_send_data(st, data) ==
               Let(64 * KiB, LAMBDA max_burst :
             Let(Min(Len(data), max_burst), LAMBDA to_send :
       Let(svm_fifo_enqueue_ts_tx(st, Take(data, to_send)), LAMBDA e :
     IF e.rv <= 0 THEN [rv |-> 0, st |-> st]
     ELSE [rv |-> e.rv, st |-> Op(e.st, "tx_evt")])))

\* http_send_error that answers every failure with 500
http_send_error_always_500(st, ec) ==
  http_send_data(st, http_error_template(http_status_code_str("INTERNAL_ERROR"))).st

http_send_error(st, ec) ==
          Let(IF InvalidStatus(ec) THEN "INTERNAL_ERROR" ELSE ec, LAMBDA code :
     http_send_data(st, http_error_template(http_status_code_str(code))).st)

(* ------------------------------------------------------------------ *)
(* Receive side handlers                                                *)
(* ------------------------------------------------------------------ *)
\* an "error:" label that parks the connection instead of closing it
wait_client_method_error_parks(st, ec) ==
  Result(st, "wait_client_method", "STOP")

\* the "error:" label of http_state_wait_client_method
wait_client_method_error(st, ec) ==
  Result(http_disconnect_transport(
           session_transport_closing_notify(
             http_send_error(http_read_message_drop_all([st EXCEPT !.ec = ec]), ec))),
         "wait_client_method", "ERROR")

\* http_state_wait_client_method from the app rx room check on
wait_client_method_handoff(st) ==
       Let(st.hc, LAMBDA c :
             Let(AppRxSize - st.as_rx_len, LAMBDA max_enq :
             Let(Min(U64(c.control_data_len + c.body_len), Len(c.rx_buf)), LAMBDA max_deq :
         Let(Min(max_enq, max_deq), LAMBDA len :
         Let(Msg("REQUEST", c.method, "NONE", "INLINE", len, c), LAMBDA msg :
       Let(svm_fifo_enqueue_msg_as_rx(st, msg, Take(c.rx_buf, len)), LAMBDA e :
         Let(AssertThat(e.st, "handoff_enqueue", e.rv = MsgSize + len), LAMBDA st1 :
               Let(U32(len - c.control_data_len), LAMBDA body_sent :
             Let(U64(c.body_len - body_sent), LAMBDA to_recv :
         Let([st1 EXCEPT !.hc.to_recv = to_recv], LAMBDA st2 :
         Let(IF to_recv = 0
             THEN http_state_change(http_read_message_drop_all(st2), "WAIT_APP_REPLY")
             ELSE http_state_change(http_read_message_drop(st2, len), "CLIENT_IO_MORE_DATA"), LAMBDA st3 :
     IF max_enq < c.control_data_len
     THEN wait_client_method_error(st, "INTERNAL_ERROR")
     ELSE Result(app_worker_rx_notify(st3), "wait_client_method", "STOP"))))))))))))

http_state_wait_client_method(st) ==
       Let(http_read_message(st), LAMBDA r :
        Let(http_parse_request_line(r.st.hc), LAMBDA p1 :
        Let(http_identify_headers(p1.hc), LAMBDA p2 :
        Let(http_identify_message_body(p2.hc), LAMBDA p3 :
     IF r.rv # 0 THEN Result(st, "wait_client_method", "STOP")
     ELSE IF Len(r.st.hc.rx_buf) < 8 THEN wait_client_method_error(r.st, "BAD_REQUEST")
     ELSE IF p1.rv # 0 THEN wait_client_method_error([r.st EXCEPT !.hc = p1.hc], p1.ec)
     ELSE IF p2.rv # 0 THEN wait_client_method_error([r.st EXCEPT !.hc = p2.hc], p2.ec)
     ELSE IF p3.rv # 0 THEN wait_client_method_error([r.st EXCEPT !.hc = p3.hc], p3.ec)
     ELSE wait_client_method_handoff([r.st EXCEPT !.hc = p3.hc])))))

\* the "error:" label of http_state_wait_server_reply
wait_server_reply_error(st) ==
  Result(http_disconnect_transport(
           session_transport_closed_notify(
             session_transport_closing_notify(
               http_read_message_drop_all(st)))),
         "wait_server_reply", "ERROR")

\* http_state_wait_server_reply from the app rx room check on
wait_server_reply_handoff(st) ==
       Let(st.hc, LAMBDA c :
             Let(U32(AppRxSize - st.as_rx_len - MsgSize), LAMBDA max_enq :
         Let(Min(max_enq, Len(c.rx_buf)), LAMBDA len :
         Let(Msg("REPLY", "GET", sc_by_u16(c.status_code), "INLINE", len, c), LAMBDA msg :
       Let(svm_fifo_enqueue_msg_as_rx(st, msg, Take(c.rx_buf, len)), LAMBDA e :
         Let(AssertThat(e.st, "handoff_enqueue", e.rv = MsgSize + len), LAMBDA st1 :
         Let(http_read_message_drop(st1, len), LAMBDA st2 :
               Let(U32(len - c.control_data_len), LAMBDA body_sent :
             Let(U64(c.body_len - body_sent), LAMBDA to_recv :
         Let([st2 EXCEPT !.hc.to_recv = to_recv], LAMBDA st3 :
         Let(IF to_recv = 0
             THEN http_state_change(st3, "WAIT_APP_METHOD")
             ELSE http_state_change(st3, "CLIENT_IO_MORE_DATA"), LAMBDA st4 :
     IF max_enq < c.control_data_len
     THEN wait_server_reply_error(st)
     ELSE Result(app_worker_rx_notify(st4), "wait_server_reply", "STOP"))))))))))))

http_state_wait_server_reply(st) ==
       Let(http_read_message(st), LAMBDA r :
        Let(http_parse_status_line(r.st.hc), LAMBDA p1 :
        Let(http_identify_headers(p1.hc), LAMBDA p2 :
        Let(http_identify_message_body(p2.hc), LAMBDA p3 :
     IF r.rv # 0 THEN Result(st, "wait_server_reply", "STOP")
     ELSE IF Len(r.st.hc.rx_buf) < 8 THEN wait_server_reply_error(r.st)
     ELSE IF p1.rv # 0 THEN wait_server_reply_error([r.st EXCEPT !.hc = p1.hc])
     ELSE IF p2.rv # 0 THEN wait_server_reply_error([r.st EXCEPT !.hc = p2.hc])
     ELSE IF p3.rv # 0 THEN wait_server_reply_error([r.st EXCEPT !.hc = p3.hc])
     ELSE wait_server_reply_handoff([r.st EXCEPT !.hc = p3.hc])))))

\* svm_fifo_segments (ts->rx_fifo, 0, seg, &n_segs, max_len): one segment
svm_fifo_segments_ts_rx(st, max_len) == Take(st.ts_rx, max_len)

\* client_io_more_data_move that leaves the state whether or not the whole
\* body has arrived
client_io_more_data_move_early(st, max_len) ==
         Let(svm_fifo_segments_ts_rx(st, max_len), LAMBDA seg :
       Let(svm_fifo_enqueue_seg_as_rx(st, seg), LAMBDA e :
        Let(e.rv, LAMBDA rv :
         Let(svm_fifo_dequeue_drop_ts_rx(e.st, rv), LAMBDA st1 :
         Let([st1 EXCEPT !.hc.to_recv = @ - rv], LAMBDA st2 :
         Let(http_state_change(st2, IF st2.hc.is_server THEN "WAIT_APP_REPLY"
                                    ELSE "WAIT_APP_METHOD"), LAMBDA st3 :
         Let(app_worker_rx_notify(st3), LAMBDA st4 :
         Let(IF Len(st4.ts_rx) > 0 THEN Op(st4, "rx_enqueue_notify") ELSE st4, LAMBDA st5 :
     IF rv < 0 THEN Result(st, "client_io_more_data", "ERROR")
     ELSE IF rv > st.hc.to_recv
     THEN Result(http_state_change(
                   http_disconnect_transport(session_transport_closing_notify(st1)),
                   "WAIT_APP_METHOD"),
                 "client_io_more_data", "ERROR")
     ELSE Result(st5, "client_io_more_data", "STOP")))))))))

\* http_state_client_io_more_data once both queues can move bytes
client_io_more_data_move(st, max_len) ==
         Let(svm_fifo_segments_ts_rx(st, max_len), LAMBDA seg :
       Let(svm_fifo_enqueue_seg_as_rx(st, seg), LAMBDA e :
        Let(e.rv, LAMBDA rv :
         Let(svm_fifo_dequeue_drop_ts_rx(e.st, rv), LAMBDA st1 :
         Let([st1 EXCEPT !.hc.to_recv = @ - rv], LAMBDA st2 :
         Let(IF st2.hc.to_recv = 0
             THEN http_state_change(st2, IF st2.hc.is_server THEN "WAIT_APP_REPLY"
                                         ELSE "WAIT_APP_METHOD")
             ELSE st2, LAMBDA st3 :
         Let(app_worker_rx_notify(st3), LAMBDA st4 :
         Let(IF Len(st4.ts_rx) > 0 THEN Op(st4, "rx_enqueue_notify") ELSE st4, LAMBDA st5 :
     IF rv < 0 THEN Result(st, "client_io_more_data", "ERROR")
     ELSE IF rv > st.hc.to_recv
     THEN Result(http_state_change(
                   http_disconnect_transport(session_transport_closing_notify(st1)),
                   "WAIT_APP_METHOD"),
                 "client_io_more_data", "ERROR")
     ELSE Result(st5, "client_io_more_data", "STOP")))))))))

http_state_client_io_more_data(st) ==
             Let(Len(st.ts_rx), LAMBDA max_deq :
             Let(AppRxSize - st.as_rx_len, LAMBDA max_enq :
     IF max_deq = 0 THEN Result(st, "client_io_more_data", "STOP")
     ELSE IF max_enq = 0
     THEN Result(Op([st EXCEPT !.as_rx_ntf = TRUE], "as_rx_want_deq_ntf"),
                 "client_io_more_data", "STOP")
     ELSE client_io_more_data_move(st, Min(max_enq, max_deq))))

(* ------------------------------------------------------------------ *)
(* The app session tx queue.  A message header takes MsgSize cells (the  *)
(* header and padding), a pointer PtrSize cells, a byte one cell.        *)
(* ------------------------------------------------------------------ *)
Cell(k, m, c, v) == [k |-> k, m |-> m, c |-> c, v |-> v]
MsgCells(m) == <<Cell("msg", m, "", <<>>)>> \o [i \in 1..(MsgSize - 1) |-> Cell("pad", NoMsg, "", <<>>)]
PtrCells(v) == <<Cell("ptr", NoMsg, "", v)>> \o [i \in 1..(PtrSize - 1) |-> Cell("pad", NoMsg, "", <<>>)]
ByteCells(bytes) == [i \in 1..Len(bytes) |-> Cell("byte", NoMsg, bytes[i], <<>>)]
CellByte(cell) == IF cell.k = "byte" THEN cell.c ELSE "?"

\* svm_fifo_dequeue (as->tx_fifo, sizeof (msg), &msg): [rv, msg, st].  When
\* the queue does not hold a whole header at its head, msg is what the
\* uninitialised or reinterpreted bytes happen to say: g.
dequeue_msg_as_tx(st, g) ==
       Let(Min(MsgSize, Len(st.as_tx)), LAMBDA n :
           Let(Take(st.as_tx, n), LAMBDA cells :
           Let(/\ n = MsgSize
               /\ cells[1].k = "msg"
               /\ \A i \in 2..n : cells[i].k = "pad", LAMBDA whole :
     [rv |-> IF n = 0 THEN -3 ELSE n,
      msg |-> IF whole THEN cells[1].m ELSE g,
      st |-> IF n = 0 THEN st ELSE Op([st EXCEPT !.as_tx = Drop(@, n)], "as_tx_deq")])))

\* svm_fifo_dequeue (as->tx_fifo, sizeof (uword), &ptr): [rv, v, st]; v is
\* the vector the pointer names
dequeue_ptr_as_tx(st) ==
       Let(Min(PtrSize, Len(st.as_tx)), LAMBDA n :
           Let(Take(st.as_tx, n), LAMBDA cells :
     [rv |-> IF n = 0 THEN -3 ELSE n,
      v |-> IF n = PtrSize /\ cells[1].k = "ptr" THEN cells[1].v ELSE <<"?">>,
      st |-> IF n = 0 THEN st ELSE Op([st EXCEPT !.as_tx = Drop(@, n)], "as_tx_deq")]))

\* svm_fifo_dequeue (as->tx_fifo, len, p): [rv, bytes, st]; bytes the queue
\* did not hold stay as they were in the destination ("?")
dequeue_bytes_as_tx(st, len) ==
       Let(Min(len, Len(st.as_tx)), LAMBDA n :
     [rv |-> IF n = 0 THEN -3 ELSE n,
      bytes |-> [i \in 1..len |-> IF i <= n THEN CellByte(st.as_tx[i]) ELSE "?"],
      st |-> IF n = 0 THEN st ELSE Op([st EXCEPT !.as_tx = Drop(@, n)], "as_tx_deq")])

(* ------------------------------------------------------------------ *)
(* Transmit buffer (http_buffer_t)                                      *)
(* ------------------------------------------------------------------ *)
http_buffer_init(st, type, len) ==
       Let(dequeue_ptr_as_tx(st), LAMBDA d :
         Let(IF st.hc.tx_buf.init THEN Op(st, "tx_buf_reinit") ELSE st, LAMBDA st0 :
     IF type = "PTR"
     THEN Op([AssertThat(IF st.hc.tx_buf.init THEN Op(d.st, "tx_buf_reinit") ELSE d.st,
                         "ptr_dequeue", d.rv = PtrSize)
                EXCEPT !.hc.tx_buf = [init |-> TRUE, type |-> "PTR", len |-> len,
                                      offset |-> 0, data |-> d.v]], "tx_buf_init")
     ELSE Op([st0 EXCEPT !.hc.tx_buf = [init |-> TRUE, type |-> "FIFO", len |-> len,
                                        offset |-> 0, data |-> <<>>]], "tx_buf_init")))

http_buffer_free(st) ==
  IF st.hc.tx_buf.init THEN Op([st EXCEPT !.hc.tx_buf = NoTxBuf], "tx_buf_free") ELSE st

\* the bytes of the segments http_buffer_get_segs returns
http_buffer_get_segs(st, max_len) ==
        Let(st.hc.tx_buf, LAMBDA hb :
       Let(Min(hb.len - hb.offset, max_len), LAMBDA n :
     IF hb.type = "PTR"
     THEN [i \in 1..n |-> At(hb.data, hb.offset + i - 1)]
     ELSE [i \in 1..Min(n, Len(st.as_tx)) |-> CellByte(st.as_tx[i])]))

\* [rv, st]: rv is what http_buffer_drain returns, the bytes to credit to
\* the application's dequeue
http_buffer_drain(st, len) ==
        Let(st.hc.tx_buf, LAMBDA hb :
         Let([st EXCEPT !.hc.tx_buf.offset = @ + len], LAMBDA st1 :
     IF hb.type = "PTR"
     THEN [rv |-> IF hb.offset + len = hb.len THEN PtrSize ELSE 0, st |-> st1]
     ELSE [rv |-> len, st |-> Op([st1 EXCEPT !.as_tx = Drop(@, len)], "as_tx_deq")]))

http_buffer_is_drained(st) == st.hc.tx_buf.offset = st.hc.tx_buf.len

(* ------------------------------------------------------------------ *)
(* Transmit side handlers                                               *)
(* ------------------------------------------------------------------ *)
\* the headers the application supplied: [bytes, st]
app_headers(st, msg) ==
        Let(dequeue_ptr_as_tx(st), LAMBDA dp :
        Let(dequeue_bytes_as_tx(st, msg.headers_len), LAMBDA db :
     IF msg.headers_len = 0 THEN [bytes |-> <<>>, st |-> st]
     ELSE IF msg.dtype = "PTR"
     THEN [bytes |-> dp.v, st |-> AssertThat(dp.st, "ptr_dequeue", dp.rv = PtrSize)]
     ELSE [bytes |-> db.bytes,
           st |-> AssertThat(db.st, "headers_dequeue", db.rv = msg.headers_len)]))

\* the "error:" label of http_state_wait_app_reply
wait_app_reply_error(st, sc) ==
  Result(http_disconnect_transport(
           session_transport_closing_notify(
             http_state_change(http_send_error(st, sc), "WAIT_CLIENT_METHOD"))),
         "wait_app_reply", "STOP")

\* http_state_wait_app_reply once the message was accepted
wait_app_reply_send(st, msg) ==
       Let(app_headers(st, msg), LAMBDA h :
              Let(http_response_template(http_status_code_str(msg.code), st.app_name,
                    msg.body_len, IF msg.headers_len # 0 THEN <<>> ELSE CRLF) \o h.bytes, LAMBDA response :
       Let(http_send_data(h.st, response), LAMBDA s :
          Let(s.rv, LAMBDA sent :
         Let(IF msg.body_len # 0
             THEN http_state_change(
                    http_buffer_init(s.st, IF msg.dtype = "PTR" THEN "PTR" ELSE "FIFO",
                                     msg.body_len),
                    "APP_IO_MORE_DATA")
             ELSE http_state_change(s.st, "WAIT_CLIENT_METHOD"), LAMBDA st1 :
         Let(AssertThat(st1, "max_burst_size", st1.sp.max_burst_size >= sent), LAMBDA st2 :
         Let([st2 EXCEPT !.sp.max_burst_size = U32(@ - sent)], LAMBDA st3 :
     IF sent # Len(response) THEN wait_app_reply_error(s.st, "INTERNAL_ERROR")
     ELSE Result(st3, "wait_app_reply", IF msg.body_len # 0 THEN "CONTINUE" ELSE "STOP"))))))))

http_state_wait_app_reply(st, g) ==
       Let(dequeue_msg_as_tx(st, g), LAMBDA d :
         Let(AssertThat(d.st, "msg_dequeue", d.rv = MsgSize), LAMBDA st0 :
         Let(d.msg, LAMBDA msg :
     IF msg.dtype \notin {"INLINE", "PTR"} THEN wait_app_reply_error(st0, "INTERNAL_ERROR")
     ELSE IF msg.type # "REPLY" THEN wait_app_reply_error(st0, "INTERNAL_ERROR")
     ELSE IF InvalidStatus(msg.code) THEN Result(st0, "wait_app_reply", "ERROR")
     ELSE wait_app_reply_send(st0, msg))))

\* the "error:" label of http_state_wait_app_method
wait_app_method_error(st) ==
  Result(http_disconnect_transport(
           session_transport_closed_notify(
             session_transport_closing_notify(
               svm_fifo_dequeue_drop_all_as_tx(st)))),
         "wait_app_method", "ERROR")

\* the request target: [bytes, st]
app_target(st, msg) ==
        Let(dequeue_ptr_as_tx(st), LAMBDA dp :
        Let(dequeue_bytes_as_tx(st, msg.target_path_len), LAMBDA db :
     IF msg.dtype = "PTR"
     THEN [bytes |-> dp.v, st |-> AssertThat(dp.st, "ptr_dequeue", dp.rv = PtrSize)]
     ELSE [bytes |-> db.bytes,
           st |-> AssertThat(db.st, "target_dequeue", db.rv = msg.target_path_len)]))

\* http_state_wait_app_method once the request line was formatted
wait_app_method_send(st, msg, request0, next_state, sm_result) ==
       Let(app_headers(st, msg), LAMBDA h :
             Let(request0 \o h.bytes, LAMBDA request :
       Let(http_send_data(h.st, request), LAMBDA s :
     IF s.rv # Len(request) THEN wait_app_method_error(s.st)
     ELSE Result(http_state_change(s.st, next_state), "wait_app_method", sm_result))))

http_state_wait_app_method(st, g) ==
       Let(dequeue_msg_as_tx(st, g), LAMBDA d :
         Let(AssertThat(d.st, "msg_dequeue", d.rv = MsgSize), LAMBDA st0 :
         Let(d.msg, LAMBDA msg :
       Let(app_target(st0, msg), LAMBDA t :
          Let(IF msg.headers_len # 0 THEN <<>> ELSE CRLF, LAMBDA tail :
     IF msg.dtype \notin {"INLINE", "PTR"} THEN wait_app_method_error(st0)
     ELSE IF msg.type # "REQUEST" THEN wait_app_method_error(st0)
     ELSE IF msg.method_type = "GET"
     THEN IF msg.body_len # 0 THEN wait_app_method_error(t.st)
          ELSE wait_app_method_send(t.st, msg,
                 http_get_request_template(t.bytes, HostName, AppName, tail),
                 "WAIT_SERVER_REPLY", "STOP")
     ELSE IF msg.method_type = "POST"
     THEN IF msg.body_len = 0 THEN wait_app_method_error(t.st)
          ELSE wait_app_method_send(
                 http_buffer_init(t.st, IF msg.dtype = "PTR" THEN "PTR" ELSE "FIFO",
                                  msg.body_len),
                 msg,
                 http_post_request_template(t.bytes, HostName, AppName, msg.body_len, tail),
                 "APP_IO_MORE_DATA", "CONTINUE")
     ELSE wait_app_method_error(t.st))))))

\* svm_fifo_enqueue_segments (ts->tx_fifo, seg, n_segs, allow_partial = 1)
svm_fifo_enqueue_segs_ts_tx(st, data) ==
          Let(TsTxSize - Len(st.ts_tx), LAMBDA free :
       Let(Min(free, Len(data)), LAMBDA n :
     IF free = 0 THEN [rv |-> -2, st |-> st]
     ELSE [rv |-> n,
           st |-> Op([st EXCEPT !.ts_tx = @ \o Take(data, n)], "ts_tx_enq")]))

\* an APP_IO_MORE_DATA handler that asks for the next handler when the body
\* is sent
http_state_app_io_more_data_continues(st) ==
              Let(Min(64 * KiB, st.sp.max_burst_size), LAMBDA max_send :
         Let(http_buffer_get_segs(st, max_send), LAMBDA seg :
       Let(IF Len(seg) > 0 THEN svm_fifo_enqueue_segs_ts_tx(st, seg)
           ELSE [rv |-> 0, st |-> st], LAMBDA e :
          Let(e.rv, LAMBDA sent :
        Let(http_buffer_drain(e.st, sent), LAMBDA dr :
         Let(IF sent > 0
             THEN [dr.st EXCEPT !.sp.bytes_dequeued = @ + dr.rv,
                                !.sp.max_burst_size = U32(@ - sent)]
             ELSE e.st, LAMBDA st1 :
         Let(IF sent # 0 THEN Op(st1, "tx_evt") ELSE st1, LAMBDA st2 :
         Let(IF TsTxSize - Len(st2.ts_tx) < HTTP_FIFO_THRESH
             THEN Op([st2 EXCEPT !.ts_tx_ntf = TRUE,
                                 !.sess.desched = TRUE,
                                 !.sp.flags = @ \cup {"DESCHED"}], "deschedule")
             ELSE st2, LAMBDA st3 :
         Let(IF sent # 0 THEN Op(st1, "tx_flush_evt") ELSE st1, LAMBDA st4 :
         Let(http_buffer_free(
               http_state_change(st4, IF st4.hc.is_server THEN "WAIT_CLIENT_METHOD"
                                      ELSE "WAIT_SERVER_REPLY")), LAMBDA st5 :
     IF ~http_buffer_is_drained(st1)
     THEN Result(st3, "app_io_more_data", "STOP")
     ELSE Result(st5, "app_io_more_data", "CONTINUE")))))))))))
http_state_app_io_more_data(st) ==
              Let(Min(64 * KiB, st.sp.max_burst_size), LAMBDA max_send :
         Let(http_buffer_get_segs(st, max_send), LAMBDA seg :
       Let(IF Len(seg) > 0 THEN svm_fifo_enqueue_segs_ts_tx(st, seg)
           ELSE [rv |-> 0, st |-> st], LAMBDA e :
          Let(e.rv, LAMBDA sent :
        Let(http_buffer_drain(e.st, sent), LAMBDA dr :
         Let(IF sent > 0
             THEN [dr.st EXCEPT !.sp.bytes_dequeued = @ + dr.rv,
                                !.sp.max_burst_size = U32(@ - sent)]
             ELSE e.st, LAMBDA st1 :
         Let(IF sent # 0 THEN Op(st1, "tx_evt") ELSE st1, LAMBDA st2 :
         Let(IF TsTxSize - Len(st2.ts_tx) < HTTP_FIFO_THRESH
             THEN Op([st2 EXCEPT !.ts_tx_ntf = TRUE,
                                 !.sess.desched = TRUE,
                                 !.sp.flags = @ \cup {"DESCHED"}], "deschedule")
             ELSE st2, LAMBDA st3 :
         Let(IF sent # 0 THEN Op(st1, "tx_flush_evt") ELSE st1, LAMBDA st4 :
         Let(http_buffer_free(
               http_state_change(st4, IF st4.hc.is_server THEN "WAIT_CLIENT_METHOD"
                                      ELSE "WAIT_SERVER_REPLY")), LAMBDA st5 :
     IF ~http_buffer_is_drained(st1)
     THEN Result(st3, "app_io_more_data", "STOP")
     ELSE Result(st5, "app_io_more_data", "STOP")))))))))))

(* ------------------------------------------------------------------ *)
(* Dispatcher                                                           *)
(* ------------------------------------------------------------------ *)
\* The idle timer. sess.timer is the timer wheel's side: "armed" while the
\* wheel holds the connection's timer, "expired" between the expiry and the
\* deferred callback on the worker, "none" otherwise. sess.late_timer is the
\* same for the timer of the record that had the pool slot before: the
\* handle the wheel keeps is the slot's index.
http_conn_timer_start(st) ==
  Op([st EXCEPT !.hc.timer_handle = "SET", !.sess.timer = "armed"], "timer_start")
http_conn_timer_update(st) ==
  IF st.hc.timer_handle = "SET" THEN Op(st, "timer_update") ELSE st
http_conn_timer_stop(st) ==
  IF st.hc.timer_handle = "SET"
  THEN Op([st EXCEPT !.hc.timer_handle = "INVALID", !.sess.timer = "none"], "timer_stop")
  ELSE st

\* state_funcs[hc->http_state] (hc, sp); the IDLE slot holds no handler
state_funcs(st, g) ==
  CASE st.hc.http_state = "WAIT_APP_METHOD" -> http_state_wait_app_method(st, g)
    [] st.hc.http_state = "WAIT_CLIENT_METHOD" -> http_state_wait_client_method(st)
    [] st.hc.http_state = "WAIT_SERVER_REPLY" -> http_state_wait_server_reply(st)
    [] st.hc.http_state = "WAIT_APP_REPLY" -> http_state_wait_app_reply(st, g)
    [] st.hc.http_state = "CLIENT_IO_MORE_DATA" -> http_state_client_io_more_data(st)
    [] st.hc.http_state = "APP_IO_MORE_DATA" -> http_state_app_io_more_data(st)
    [] OTHER -> Result(AssertThat(st, "null_handler", FALSE), "idle", "ERROR")

RECURSIVE http_req_run_state_machine(_, _)
\* a dispatcher that refreshes the idle timer whatever the last handler
\* returned
http_req_run_state_machine_always_updates(st, g) ==
         Let(state_funcs(st, g), LAMBDA st1 :
     IF st1.res[Len(st1.res)][2] = "CONTINUE" THEN http_req_run_state_machine(st1, g)
     ELSE http_conn_timer_update(st1))

http_req_run_state_machine(st, g) ==
         Let(state_funcs(st, g), LAMBDA st1 :
         Let(st1.res[Len(st1.res)][2], LAMBDA res :
     IF res = "ERROR" THEN st1
     ELSE IF res = "CONTINUE" THEN http_req_run_state_machine(st1, g)
     ELSE http_conn_timer_update(st1)))

(* ------------------------------------------------------------------ *)
(* Callbacks of the transport session                                   *)
(* ------------------------------------------------------------------ *)
\* the worker runs the events already posted before it takes new input
Quiescent ==
  /\ ~sess.rx_evt
  /\ ~sess.deq_ntf
  /\ ~(sess.tx_evt /\ ~sess.desched)
  /\ sess.timer # "expired"

\* the listener's record, which accept copies, and the half-open record,
\* which connected copies; app_name names the vector the field points to:
\* "lhc" the one http_start_listen allocated for the listener, "hc" the one
\* http_transport_connect allocated for the connection
ListenerConn == [ZeroConn EXCEPT !.is_server = TRUE, !.state = "LISTEN",
                                 !.app_name = "lhc"]
HalfOpenConn == [ZeroConn EXCEPT !.is_server = FALSE, !.state = "CONNECTING",
                                 !.app_name = "hc"]

\* outcome: "ok", or the step of the callback that failed
http_ts_accept_callback ==
  /\ alloc = "template"
  /\ hc.is_server
  /\ \E outcome \in {"ok", "init_accepted_failed", "accept_notify_failed"} :
              Let(Bundle("accept"), LAMBDA st0 :
              Let(http_state_change([st0 EXCEPT !.hc.state = "ESTABLISHED",
                                                    !.hc.timer_handle = "INVALID"],
                                    "WAIT_CLIENT_METHOD"), LAMBDA st1 :
          IF outcome = "ok"
          THEN /\ Commit(http_conn_timer_start(Op(st1, "accept_notify")))
               /\ alloc' = "conn"
          ELSE /\ Commit(st1)
               /\ alloc' = "failed"))
  /\ UNCHANGED <<peer, napp>>

http_ts_connected_callback ==
  /\ alloc = "template"
  /\ ~hc.is_server
  /\ \E outcome \in {"ok", "err", "init_connected_failed"} :
              Let(Bundle("connected"), LAMBDA st0 :
              Let(http_state_change([st0 EXCEPT !.hc.state = "ESTABLISHED",
                                                    !.hc.timer_handle = "INVALID"],
                                    "WAIT_APP_METHOD"), LAMBDA st1 :
          CASE outcome = "ok" ->
                 /\ Commit(http_conn_timer_start(Op(st1, "connect_notify")))
                 /\ alloc' = "conn"
            [] outcome = "err" ->
                 /\ Commit(Op(st0, "connect_notify_err"))
                 /\ alloc' = "failed"
            [] OTHER ->
                 /\ Commit(st1)
                 /\ alloc' = "failed"))
  /\ UNCHANGED <<peer, napp>>

http_ts_rx_callback ==
  /\ alloc = "conn"
  /\ sess.rx_evt
  /\       Let([Bundle("rx") EXCEPT !.sess.rx_evt = FALSE], LAMBDA st :
            Let(http_req_run_state_machine(st, NoMsg), LAMBDA st1 :
            Let(IF st1.hc.state = "TRANSPORT_CLOSED" /\ Len(st1.ts_rx) = 0
                THEN session_transport_closing_notify(st1)
                ELSE st1, LAMBDA st2 :
         \* session_enqueue_notify (ts) posts another rx event
            Let(IF \E i \in 1..Len(st2.ops) : st2.ops[i] = "rx_enqueue_notify"
                THEN [st2 EXCEPT !.sess.rx_evt = TRUE]
                ELSE st2, LAMBDA st3 :
        IF hc.state = "CLOSED" THEN Commit(svm_fifo_dequeue_drop_all_ts_tx(st))
        ELSE IF ~http_state_is_rx_valid(hc) THEN Commit(svm_fifo_dequeue_drop_all_ts_tx(st))
        ELSE Commit(st3)))))
  /\ UNCHANGED <<alloc, peer, napp>>

\* transport_connection_reschedule
http_ts_builtin_tx_callback ==
  /\ alloc = "conn"
  /\ sess.deq_ntf
  /\ Commit(Op([Bundle("builtin_tx") EXCEPT !.sess.deq_ntf = FALSE,
                                           !.sess.desched = FALSE,
                                           !.sess.tx_evt = TRUE], "reschedule"))
  /\ UNCHANGED <<alloc, peer, napp>>

http_ts_disconnect_callback ==
  /\ alloc = "conn"
  /\ Quiescent
  /\ sess.ts = "open"
  /\       Let([Bundle("disconnect") EXCEPT !.sess.ts = "closed"], LAMBDA st :
            Let(IF st.hc.state \in {"LISTEN", "CONNECTING", "ESTABLISHED"}
                THEN [st EXCEPT !.hc.state = "TRANSPORT_CLOSED"]
                ELSE st, LAMBDA st1 :
        Commit(IF Len(st1.ts_rx) = 0 THEN session_transport_closing_notify(st1) ELSE st1)))
  /\ UNCHANGED <<alloc, peer, napp>>

http_ts_reset_callback_keeps_buffer ==
  /\ alloc = "conn"
  /\ Quiescent
  /\ sess.ts # "reset"
  /\       Let([Bundle("reset") EXCEPT !.sess.ts = "reset", !.hc.state = "CLOSED"], LAMBDA st :
        Commit(http_disconnect_transport(
                 session_transport_reset_notify(
                   http_state_change(st, "WAIT_CLIENT_METHOD")))))
  /\ UNCHANGED <<alloc, peer, napp>>
http_ts_reset_callback ==
  /\ alloc = "conn"
  /\ Quiescent
  /\ sess.ts # "reset"
  /\       Let([Bundle("reset") EXCEPT !.sess.ts = "reset", !.hc.state = "CLOSED"], LAMBDA st :
        Commit(http_disconnect_transport(
                 session_transport_reset_notify(
                   http_state_change(http_buffer_free(st), "WAIT_CLIENT_METHOD")))))
  /\ UNCHANGED <<alloc, peer, napp>>

\* http_ts_cleanup_callback without the early return for the transport's
\* own cleanup
http_ts_cleanup_callback_any_ntf ==
  /\ alloc = "conn"
  /\ sess.ndisc > 0
  /\ \E ntf \in {"TRANSPORT", "SESSION"} :
             Let(Bundle("cleanup_" \o ntf), LAMBDA st :
              Let(http_buffer_free([st EXCEPT !.hc.rx_buf = <<>>]), LAMBDA st0 :
              Let(Op(session_transport_delete_notify(
                       IF st0.hc.pending_timer = 0 THEN http_conn_timer_stop(st0) ELSE st0),
                     "conn_free"), LAMBDA st1 :
          Commit(st1) /\ alloc' = "freed")))
  /\ UNCHANGED <<peer, napp>>

\* ntf = SESSION_CLEANUP_TRANSPORT returns at once; SESSION_CLEANUP_SESSION
\* frees the record
http_ts_cleanup_callback ==
  /\ alloc = "conn"
  /\ sess.ndisc > 0
  /\ \E ntf \in {"TRANSPORT", "SESSION"} :
             Let(Bundle("cleanup_" \o ntf), LAMBDA st :
              Let(http_buffer_free([st EXCEPT !.hc.rx_buf = <<>>]), LAMBDA st0 :
              Let(Op(session_transport_delete_notify(
                       IF st0.hc.pending_timer = 0 THEN http_conn_timer_stop(st0) ELSE st0),
                     "conn_free"), LAMBDA st1 :
          IF ntf = "TRANSPORT"
          THEN Commit(st) /\ alloc' = alloc
          ELSE Commit(st1) /\ alloc' = "freed")))
  /\ UNCHANGED <<peer, napp>>

\* http_conn_get_w_thread_if_valid: the record, unless its pool index is free
http_conn_get_w_thread_if_valid == alloc = "conn"

\* the timer wheel finds the connection's timer expired: it calls this
\* callback and posts http_conn_timeout_cb to the connection's worker
\* a timer-wheel callback that closes the connection itself
http_conn_invalidate_timer_cb_closes ==
  /\ sess.timer = "armed"
  /\ Quiescent
  /\ Let([Bundle("invalidate_timer") EXCEPT !.sess.timer = "expired"], LAMBDA st :
       IF ~http_conn_get_w_thread_if_valid THEN Commit(st)
       ELSE Commit(http_disconnect_transport(
                     [st EXCEPT !.hc.timer_handle = "INVALID", !.hc.pending_timer = 1])))
  /\ UNCHANGED <<alloc, peer, napp>>

\* late: the timer is the one of the slot's previous record
http_conn_invalidate_timer_cb ==
  /\ Quiescent
  /\ \E late \in BOOLEAN :
       /\ (IF late THEN sess.late_timer ELSE sess.timer) = "armed"
       /\ Let(IF late
              THEN [Bundle("late_invalidate_timer") EXCEPT !.sess.late_timer = "expired"]
              ELSE [Bundle("invalidate_timer") EXCEPT !.sess.timer = "expired"], LAMBDA st :
            IF ~http_conn_get_w_thread_if_valid THEN Commit(st)
            ELSE Commit([st EXCEPT !.hc.timer_handle = "INVALID", !.hc.pending_timer = 1]))
  /\ UNCHANGED <<alloc, peer, napp>>

\* a deferred callback that closes without looking at pending_timer
http_conn_timeout_cb_any_pending ==
  /\ \E late \in BOOLEAN :
       /\ (IF late THEN sess.late_timer ELSE sess.timer) = "expired"
       /\ Let(IF late
              THEN [Bundle("late_timeout") EXCEPT !.sess.late_timer = "none"]
              ELSE [Bundle("timeout") EXCEPT !.sess.timer = "none"], LAMBDA st :
            IF ~http_conn_get_w_thread_if_valid THEN Commit(Op(st, "already_deleted"))
            ELSE Commit(http_disconnect_transport(session_transport_closing_notify(st))))
  /\ UNCHANGED <<alloc, peer, napp>>
\* late: the callback was posted for the timer of the slot's previous record
http_conn_timeout_cb ==
  /\ \E late \in BOOLEAN :
       /\ (IF late THEN sess.late_timer ELSE sess.timer) = "expired"
       /\ Let(IF late
              THEN [Bundle("late_timeout") EXCEPT !.sess.late_timer = "none"]
              ELSE [Bundle("timeout") EXCEPT !.sess.timer = "none"], LAMBDA st :
            IF ~http_conn_get_w_thread_if_valid THEN Commit(Op(st, "already_deleted"))
            ELSE IF st.hc.pending_timer = 0 THEN Commit(Op(st, "timer_not_pending"))
            ELSE Commit(http_disconnect_transport(session_transport_closing_notify(st))))
  /\ UNCHANGED <<alloc, peer, napp>>

(* ------------------------------------------------------------------ *)
(* Callbacks of the app session                                         *)
(* ------------------------------------------------------------------ *)
AppMsg(type, method, code, dtype, target_len, headers_len, body_len) ==
  Msg(type, method, code, dtype, target_len + headers_len + body_len,
      [ZeroConn EXCEPT !.target_path_len = target_len, !.headers_len = headers_len,
                       !.body_len = body_len])
BodyXY == <<"x", "y">>
\* a body the transport tx queue cannot take in one pass
BigLen == 40
BodyBig == [i \in 1..BigLen |-> "b"]
Target == <<"/", "a">>
\* a message as the application lays it on its tx queue
Submit(m, target, body) ==
  MsgCells(m)
  \o (IF m.dtype = "PTR" THEN (IF Len(target) > 0 THEN PtrCells(target) ELSE <<>>)
                              \o (IF Len(body) > 0 THEN PtrCells(body) ELSE <<>>)
      ELSE ByteCells(target) \o ByteCells(body))

ServerAppMsgs ==
  { Submit(AppMsg("REPLY", "GET", "OK", "INLINE", 0, 0, 0), <<>>, <<>>),
    Submit(AppMsg("REPLY", "GET", "OK", "INLINE", 0, 0, 2), <<>>, BodyXY),
    Submit(AppMsg("REPLY", "GET", "NOT_FOUND", "PTR", 0, 0, BigLen), <<>>, BodyBig),
    Submit(AppMsg("REQUEST", "GET", "OK", "INLINE", 0, 0, 0), <<>>, <<>>),
    Submit(AppMsg("REPLY", "GET", "INVALID", "INLINE", 0, 0, 0), <<>>, <<>>),
    Submit(AppMsg("REPLY", "GET", "INVALID", "INLINE", 0, 0, 1), <<>>, <<"x">>),
    Submit(AppMsg("REPLY", "GET", "OK", "INVALID", 0, 0, 0), <<>>, <<>>) }
ClientAppMsgs ==
  { Submit(AppMsg("REQUEST", "GET", "NONE", "INLINE", 2, 0, 0), Target, <<>>),
    Submit(AppMsg("REQUEST", "POST", "NONE", "INLINE", 2, 0, 2), Target, BodyXY),
    Submit(AppMsg("REQUEST", "GET", "NONE", "INLINE", 2, 0, 2), Target, BodyXY),
    Submit(AppMsg("REQUEST", "POST", "NONE", "INLINE", 2, 0, 0), Target, <<>>),
    Submit(AppMsg("REQUEST", "PUT", "NONE", "INLINE", 2, 0, 0), Target, <<>>),
    Submit(AppMsg("REPLY", "GET", "OK", "INLINE", 0, 0, 0), <<>>, <<>>),
    Submit(AppMsg("REQUEST", "GET", "NONE", "INVALID", 2, 0, 0), Target, <<>>) }

\* what a header read from bytes that are no header may say
GarbageMsgs ==
  { AppMsg("REPLY", "GET", "OK", "INLINE", 0, 0, 0),
    AppMsg("REQUEST", "POST", "NONE", "INLINE", 0, 0, 2),
    AppMsg("NONE", "GET", "INVALID", "INVALID", 0, 0, 0) }

\* TRANSPORT_PACER_MIN_MSS
TRANSPORT_PACER_MIN_MSS == 1460
\* the burst sizes, in MSS units, the scheduler grants
BurstChoices == {1}

http_app_tx_callback ==
  /\ alloc = "conn"
  /\ sess.tx_evt
  /\ ~sess.desched
  \* name: what reading hc->app_name yields; a vector already freed still
  \* holds its bytes, or whatever the allocator put there since
  /\ \E n \in BurstChoices, g \in GarbageMsgs,
        name \in IF hc.app_name = "lhc" /\ sess.listener = "freed"
                 THEN {AppName, <<>>, <<"?", "?">>} ELSE {AppName} :
                       Let(U32(n * TRANSPORT_PACER_MIN_MSS), LAMBDA max_burst_sz :
             Let([Bundle("tx") EXCEPT !.sp.max_burst_size = max_burst_sz,
                                      !.sess.tx_evt = FALSE,
                                      !.app_name = name], LAMBDA st :
              Let(http_req_run_state_machine(st, g), LAMBDA st1 :
              Let(IF st1.hc.state = "APP_CLOSED" /\ Len(st1.as_tx) = 0
                  THEN http_disconnect_transport(st1)
                  ELSE st1, LAMBDA st2 :
               Let(U32(max_burst_sz - st2.sp.max_burst_size), LAMBDA sent :
           \* the scheduler calls again while the session has bytes to send
              Let([st2 EXCEPT !.ret = IF sent > 0 THEN Max(sent \div TRANSPORT_PACER_MIN_MSS, 1)
                                      ELSE 0,
                              !.sess.tx_evt = Len(st2.as_tx) > 0], LAMBDA st3 :
          IF ~http_state_is_tx_valid(hc)
          THEN Commit(svm_fifo_dequeue_drop_all_as_tx(st))
          ELSE Commit(st3)))))))
  /\ UNCHANGED <<alloc, peer, napp>>

\* http_stop_listen, called once the connection was accepted:
\* http_listener_free frees the listener's app_name and its pool slot
http_stop_listen ==
  /\ alloc = "conn"
  /\ hc.is_server
  /\ sess.listener = "listening"
  /\ Commit([Bundle("stop_listen") EXCEPT !.sess.listener = "freed"])
  /\ UNCHANGED <<alloc, peer, napp>>

\* http_transport_close that disconnects without confirming the close
http_transport_close_unconfirmed ==
  /\ alloc = "conn"
  /\ Quiescent
  /\ ~sess.app_close
  /\       Let([Bundle("close") EXCEPT !.sess.app_close = TRUE], LAMBDA st :
        IF hc.state = "CONNECTING"
        THEN Commit(http_disconnect_transport([st EXCEPT !.hc.state = "APP_CLOSED"]))
        ELSE IF hc.state = "CLOSED" THEN Commit(st)
        ELSE IF Len(as_tx) = 0
        THEN Commit(http_disconnect_transport(st))
        ELSE Commit([st EXCEPT !.hc.state = "APP_CLOSED"]))
  /\ UNCHANGED <<alloc, peer, napp>>

http_transport_close ==
  /\ alloc = "conn"
  /\ Quiescent
  /\ ~sess.app_close
  /\       Let([Bundle("close") EXCEPT !.sess.app_close = TRUE], LAMBDA st :
        IF hc.state = "CONNECTING"
        THEN Commit(http_disconnect_transport([st EXCEPT !.hc.state = "APP_CLOSED"]))
        ELSE IF hc.state = "CLOSED" THEN Commit(st)
        ELSE IF Len(as_tx) = 0
        THEN Commit(http_disconnect_transport(session_transport_closed_notify(st)))
        ELSE Commit([st EXCEPT !.hc.state = "APP_CLOSED"]))
  /\ UNCHANGED <<alloc, peer, napp>>

(* ------------------------------------------------------------------ *)
(* Environment: the peer, the transport, the application                *)
(* ------------------------------------------------------------------ *)
BodyABC == <<"a", "b", "c">>
BodyABCD == <<"a", "b", "c", "d">>
ReqGet == <<"G", "E", "T", SP, "/", "a", SP, "H", "T", "T", "P", "/", "1", ".", "1", CR, LF, CR, LF>>
ReqPostCtl == <<"P", "O", "S", "T", SP, "/", "a", SP, "H", "T", "T", "P", "/", "1", ".", "1", CR, LF, "C", "o", "n", "t", "e", "n", "t", "-", "L", "e", "n", "g", "t", "h", ":", "4", CR, LF, CR, LF>>
ReqBadMethod == <<"G", "E", SP, "/", "x", SP, "H", "T", "T", "P", "/", "1", ".", "1", CR, LF, CR, LF>>
RepOk == <<"H", "T", "T", "P", "/", "1", ".", "1", SP, "2", "0", "0", SP, "O", "K", CR, LF, CR, LF>>
RepBodyCtl == <<"H", "T", "T", "P", "/", "1", ".", "1", SP, "2", "9", "9", SP, "X", CR, LF, "C", "o", "n", "t", "e", "n", "t", "-", "L", "e", "n", "g", "t", "h", ":", "3", CR, LF, CR, LF>>
RepBadVersion == <<"H", "T", "T", "P", "/", "2", ".", "0", SP, "2", "0", "0", SP, "O", "K", CR, LF, CR, LF>>
Junk == <<"z">>

\* what the peer may put on the wire, with the places where a message may
\* be cut into segments
PeerMsg(data, cuts) == [data |-> data, cuts |-> cuts \cup {Len(data)}]
ServerPeerMsgs ==
  { PeerMsg(ReqGet, {5}),
    PeerMsg(ReqPostCtl \o BodyABCD, {Len(ReqPostCtl), Len(ReqPostCtl) + 2, Len(ReqPostCtl) + 3}),
    PeerMsg(ReqPostCtl \o BodyABCD \o Junk, {Len(ReqPostCtl)}),
    PeerMsg(ReqBadMethod, {}) }
ClientPeerMsgs ==
  { PeerMsg(RepOk, {5}),
    PeerMsg(RepBodyCtl \o BodyABC, {Len(RepBodyCtl), Len(RepBodyCtl) + 1}),
    PeerMsg(RepBodyCtl \o BodyABC \o Junk, {}),
    PeerMsg(RepBadVersion, {}) }

NoEv ==
  [cb |-> "init", ops |-> <<>>, trans |-> <<>>, res |-> <<>>, asserts |-> {}, ret |-> 0,
   ec |-> NoEc, pre_state |-> "LISTEN", msg |-> NoMsg, pre |-> "IDLE", pre_to_recv |-> 0, pre_ts_rx |-> 0,
   pre_ts_tx |-> 0, pre_as_rx |-> 0, sp |-> NoSp]

PeerBegin(max) ==
  /\ alloc = "conn"
  /\ Quiescent
  /\ sess.ts = "open"
  /\ peer.pos = Len(peer.data)
  /\ peer.n < max
  /\ \E m \in (IF hc.is_server THEN ServerPeerMsgs ELSE ClientPeerMsgs) :
       peer' = [data |-> m.data, cuts |-> m.cuts, pos |-> 0, n |-> peer.n + 1]
  /\ UNCHANGED <<hc, alloc, ts_rx, rx_pos, ts_tx, as_rx_len, as_rx_ntf, app_rx_log,
                 as_tx, ts_tx_ntf, sess, napp>>
  /\ ev' = NoEv

PeerStart == PeerBegin(MaxPeerMsgs)

\* a segment arrives: the transport enqueues it and posts an rx event
PeerSend ==
  /\ alloc = "conn"
  /\ Quiescent
  /\ sess.ts = "open"
  /\ \E c \in peer.cuts :
       /\ c > peer.pos
       /\ Len(ts_rx) + (c - peer.pos) <= TsRxSize
       /\ ts_rx' = ts_rx \o SubSeq(peer.data, peer.pos + 1, c)
       /\ peer' = [peer EXCEPT !.pos = c]
  /\ sess' = [sess EXCEPT !.rx_evt = TRUE]
  /\ UNCHANGED <<hc, alloc, rx_pos, ts_tx, as_rx_len, as_rx_ntf, app_rx_log,
                 as_tx, ts_tx_ntf, napp>>
  /\ ev' = NoEv

\* the transport sends bytes of its tx queue; a requested dequeue
\* notification is then delivered
TsDrain ==
  /\ alloc = "conn"
  /\ Quiescent
  /\ Len(ts_tx) > 0
  /\ ts_tx' = <<>>
  /\ ts_tx_ntf' = FALSE
  /\ sess' = [sess EXCEPT !.deq_ntf = @ \/ ts_tx_ntf]
  /\ UNCHANGED <<hc, alloc, ts_rx, rx_pos, as_rx_len, as_rx_ntf, app_rx_log,
                 as_tx, peer, napp>>
  /\ ev' = NoEv

\* the application reads its rx queue; a requested dequeue notification
\* brings the connection back to its rx path
AppRead ==
  /\ alloc = "conn"
  /\ Quiescent
  /\ as_rx_len > 0
  /\ as_rx_len' = 0
  /\ as_rx_ntf' = FALSE
  /\ sess' = [sess EXCEPT !.rx_evt = @ \/ as_rx_ntf]
  /\ UNCHANGED <<hc, alloc, ts_rx, rx_pos, ts_tx, app_rx_log,
                 as_tx, ts_tx_ntf, peer, napp>>
  /\ ev' = NoEv

\* the application submits a message, at most max of them
AppSubmit(max) ==
  /\ alloc = "conn"
  /\ ~sess.app_close
  /\ napp < max
  /\ \E cells \in (IF hc.is_server THEN ServerAppMsgs ELSE ClientAppMsgs) :
       as_tx' = as_tx \o cells
  /\ napp' = napp + 1
  /\ sess' = [sess EXCEPT !.tx_evt = TRUE]
  /\ UNCHANGED <<hc, alloc, ts_rx, rx_pos, ts_tx, as_rx_len, as_rx_ntf, app_rx_log,
                 ts_tx_ntf, peer>>
  /\ ev' = NoEv

AppSend == AppSubmit(MaxAppMsgs)

(* ------------------------------------------------------------------ *)
(* Specification                                                        *)
(* ------------------------------------------------------------------ *)
Init ==
  /\ hc \in {ListenerConn, HalfOpenConn}
  /\ alloc = "template"
  /\ ts_rx = <<>>
  /\ rx_pos = 0
  /\ ts_tx = <<>>
  /\ as_rx_len = 0
  /\ as_rx_ntf = FALSE
  /\ app_rx_log = <<>>
  /\ as_tx = <<>>
  /\ ts_tx_ntf = FALSE
  /\ sess = [ts |-> "open", ndisc |-> 0, rx_evt |-> FALSE, tx_evt |-> FALSE,
             desched |-> FALSE, deq_ntf |-> FALSE, app_close |-> FALSE,
             timer |-> "none", listener |-> "listening", late_timer |-> "none"]
  /\ peer = [data |-> <<>>, cuts |-> {}, pos |-> 0, n |-> 0]
  /\ napp = 0
  /\ ev = NoEv

Next ==
  \/ http_ts_accept_callback
  \/ http_ts_connected_callback
  \/ http_ts_rx_callback
  \/ http_ts_builtin_tx_callback
  \/ http_ts_disconnect_callback
  \/ http_ts_reset_callback
  \/ http_ts_cleanup_callback
  \/ http_app_tx_callback
  \/ http_conn_invalidate_timer_cb
  \/ http_conn_timeout_cb
  \/ http_transport_close
  \/ PeerStart
  \/ PeerSend
  \/ TsDrain
  \/ AppRead
  \/ AppSend

Spec == Init /\ [][Next]_vars

\* Longer exchanges on a connection that neither side closes: the
\* application may submit MaxFlowAppMsgs messages, and the connection ends
\* only by the error paths of the handlers.
AppSendFlow == AppSubmit(MaxFlowAppMsgs)

NextFlow ==
  \/ http_ts_accept_callback
  \/ http_ts_connected_callback
  \/ http_ts_rx_callback
  \/ http_ts_builtin_tx_callback
  \/ http_ts_cleanup_callback
  \/ http_app_tx_callback
  \/ PeerStart
  \/ PeerSend
  \/ TsDrain
  \/ AppRead
  \/ AppSendFlow

SpecFlow == Init /\ [][NextFlow]_vars

\* The life of a connection around one exchange: every way of ending it,
\* with MaxLifePeerMsgs messages from the peer and MaxLifeAppMsgs from the
\* application.
PeerStartLife == PeerBegin(MaxLifePeerMsgs)
AppSendLife == AppSubmit(MaxLifeAppMsgs)

NextLife ==
  \/ http_ts_accept_callback
  \/ http_ts_connected_callback
  \/ http_ts_rx_callback
  \/ http_ts_builtin_tx_callback
  \/ http_ts_disconnect_callback
  \/ http_ts_reset_callback
  \/ http_ts_cleanup_callback
  \/ http_app_tx_callback
  \/ http_transport_close
  \/ PeerStartLife
  \/ PeerSend
  \/ TsDrain
  \/ AppRead
  \/ AppSendLife

SpecLife == Init /\ [][NextLife]_vars

\* The idle timer's case: a connection whose transport and application
\* stall (the transport sends nothing of the tx queue, the application reads
\* nothing), so that the timer may expire at any point of the exchange, with
\* every other way of ending the connection.
NextTimer ==
  \/ http_ts_accept_callback
  \/ http_ts_connected_callback
  \/ http_ts_rx_callback
  \/ http_ts_disconnect_callback
  \/ http_ts_reset_callback
  \/ http_ts_cleanup_callback
  \/ http_app_tx_callback
  \/ http_conn_invalidate_timer_cb
  \/ http_conn_timeout_cb
  \/ http_transport_close
  \/ PeerStartLife
  \/ PeerSend
  \/ AppSendLife

SpecTimer == Init /\ [][NextTimer]_vars

\* http_conn_alloc_w_thread when the pool hands out the slot of a freed
\* record: the record is zeroed and the next connection of the same role
\* is set up in it, with sessions and queues of its own; what the wheel
\* and the worker still hold for the old record's timer stays
http_conn_alloc_w_thread ==
  /\ alloc = "freed"
  /\ alloc' = "template"
  /\ hc' = (IF hc.is_server THEN ListenerConn ELSE HalfOpenConn)
  /\ ts_rx' = <<>>
  /\ rx_pos' = 0
  /\ ts_tx' = <<>>
  /\ as_rx_len' = 0
  /\ as_rx_ntf' = FALSE
  /\ app_rx_log' = <<>>
  /\ as_tx' = <<>>
  /\ ts_tx_ntf' = FALSE
  /\ sess' = [ts |-> "open", ndisc |-> 0, rx_evt |-> FALSE, tx_evt |-> FALSE,
              desched |-> FALSE, deq_ntf |-> FALSE, app_close |-> FALSE,
              timer |-> "none", listener |-> sess.listener,
              late_timer |-> IF sess.timer # "none" THEN sess.timer ELSE sess.late_timer]
  /\ peer' = [data |-> <<>>, cuts |-> {}, pos |-> 0, n |-> 0]
  /\ napp' = 0
  /\ ev' = NoEv

\* A pool slot and its successive connections: connections that are set
\* up, closed by the application, the peer or the idle timer, and freed,
\* after which the slot is handed out again.
NextReuse ==
  \/ http_ts_accept_callback
  \/ http_ts_connected_callback
  \/ http_ts_disconnect_callback
  \/ http_ts_reset_callback
  \/ http_ts_cleanup_callback
  \/ http_conn_invalidate_timer_cb
  \/ http_conn_timeout_cb
  \/ http_transport_close
  \/ http_conn_alloc_w_thread

SpecReuse == Init /\ [][NextReuse]_vars

\* The parsers over whole families of inputs. The peer of a client answers
\* the request with one reply, whose status code is any three digits and
\* whose Content-Length is any string of at most MaxDigits digits.
RepParse(code, length) ==
  <<"H", "T", "T", "P", "/", "1", ".", "1", SP>> \o code \o <<SP, "X", CR, LF>>
    \o <<"C", "o", "n", "t", "e", "n", "t", "-", "L", "e", "n", "g", "t", "h", ":">>
    \o length \o <<CR, LF, CR, LF>>
ParsePeerMsgs ==
  { PeerMsg(RepParse(code, <<"0">>), {}) : code \in [1..3 -> {Digits[i] : i \in 1..10}] }
  \cup
  { PeerMsg(RepParse(<<"2", "0", "0">>, length), {}) :
      length \in UNION {[1..n -> {"0", "1", "9"}] : n \in 1..MaxDigits} }

\* a request line with any method token and any major version, and the
\* requests the peer of a server may send: every kind of first byte of the
\* method, and both accepted methods with every major version
ReqParse(method, major) ==
  method \o <<SP, "/", "a", SP, "H", "T", "T", "P", "/">> \o major
    \o <<".", "1", CR, LF, CR, LF>>
RequestPeerMsgs ==
  { PeerMsg(ReqParse(<<c, "E", "T">>, <<"1">>), {}) :
      c \in {"G", "A", "S", "Z", "g", "a", "z", "[", "~", "1", "9", "*", "-", ":", "?"} }
  \cup
  { PeerMsg(ReqParse(m, <<v>>), {}) :
      m \in {<<"G", "E", "T">>, <<"P", "O", "S", "T">>},
      v \in {Digits[i] : i \in 1..10} \cup {"x", ".", SP} }

PeerStartParse ==
  /\ alloc = "conn"
  /\ Quiescent
  /\ sess.ts = "open"
  /\ hc.http_state = (IF hc.is_server THEN "WAIT_CLIENT_METHOD" ELSE "WAIT_SERVER_REPLY")
  /\ peer.data = <<>>
  /\ \E m \in (IF hc.is_server THEN RequestPeerMsgs ELSE ParsePeerMsgs) :
       peer' = [data |-> m.data, cuts |-> m.cuts, pos |-> 0, n |-> 1]
  /\ UNCHANGED <<hc, alloc, ts_rx, rx_pos, ts_tx, as_rx_len, as_rx_ntf, app_rx_log,
                 as_tx, ts_tx_ntf, sess, napp>>
  /\ ev' = NoEv

InitParse == Init

NextParse ==
  \/ http_ts_accept_callback
  \/ http_ts_connected_callback
  \/ http_ts_rx_callback
  \/ http_app_tx_callback
  \/ PeerStartParse
  \/ PeerSend
  \/ TsDrain
  \/ AppSendLife

SpecParse == InitParse /\ [][NextParse]_vars

\* Application close with work left: a connection whose application
\* submits up to MaxFlowAppMsgs messages and closes, while the transport
\* drains; the peer neither disconnects nor resets.
NextClose ==
  \/ http_ts_accept_callback
  \/ http_ts_connected_callback
  \/ http_ts_rx_callback
  \/ http_ts_builtin_tx_callback
  \/ http_ts_cleanup_callback
  \/ http_app_tx_callback
  \/ http_transport_close
  \/ PeerStartLife
  \/ PeerSend
  \/ TsDrain
  \/ AppSendFlow
  \/ http_stop_listen

SpecClose == Init /\ [][NextClose]_vars

(* ------------------------------------------------------------------ *)
(* Properties                                                           *)
(* ------------------------------------------------------------------ *)
\* the last step was a run of the dispatcher that invoked handler h
Ran(h) == \E i \in 1..Len(ev.res) : ev.res[i][1] = h
Returned(h, r) == \E i \in 1..Len(ev.res) : ev.res[i] = <<h, r>>
Did(o) == \E i \in 1..Len(ev.ops) : ev.ops[i] = o
\* the places of operation o in the last step
Places(o) == {i \in 1..Len(ev.ops) : ev.ops[i] = o}
\* o1 was done, and o2 after it
InOrder(o1, o2) == \E i \in Places(o1), j \in Places(o2) : i < j

ServerSequence ==
  { <<"WAIT_CLIENT_METHOD", "WAIT_APP_REPLY">>, <<"WAIT_CLIENT_METHOD", "CLIENT_IO_MORE_DATA">>,
    <<"CLIENT_IO_MORE_DATA", "WAIT_APP_REPLY">>, <<"WAIT_APP_REPLY", "APP_IO_MORE_DATA">>,
    <<"WAIT_APP_REPLY", "WAIT_CLIENT_METHOD">>, <<"APP_IO_MORE_DATA", "WAIT_CLIENT_METHOD">> }
ClientSequence ==
  { <<"WAIT_APP_METHOD", "WAIT_SERVER_REPLY">>, <<"WAIT_APP_METHOD", "APP_IO_MORE_DATA">>,
    <<"APP_IO_MORE_DATA", "WAIT_SERVER_REPLY">>, <<"WAIT_SERVER_REPLY", "WAIT_APP_METHOD">>,
    <<"WAIT_SERVER_REPLY", "CLIENT_IO_MORE_DATA">>, <<"CLIENT_IO_MORE_DATA", "WAIT_APP_METHOD">> }

\* C1: every change of http_state made by a state-machine handler is a
\* transition of the role's sequence (server: the six of ServerSequence,
\* client: the six of ClientSequence), on every outcome of the handler.
C1_HandlerTransitionsFollowRole ==
  ev.cb \in {"rx", "tx"} =>
    \A i \in 1..Len(ev.trans) :
      ev.trans[i] \in (IF hc.is_server THEN ServerSequence ELSE ClientSequence)

\* C2: no pipelining on a server connection. (a) When a reply has been sent
\* and the connection is back in WAIT_CLIENT_METHOD, the transport rx queue
\* holds no byte and rx_buf is empty; (b) an rx callback that finds the
\* connection in WAIT_APP_REPLY or APP_IO_MORE_DATA discards the bytes that
\* arrived; (c) when CLIENT_IO_MORE_DATA finishes the body nothing is left
\* on the transport rx queue.  So no byte that arrived before the reply was
\* sent is parsed as the start of the next request.
C2_NoPipelining ==
  (hc.is_server /\ alloc = "conn") =>
    /\ (ev.cb = "tx" /\ \E i \in 1..Len(ev.trans) : ev.trans[i][2] = "WAIT_CLIENT_METHOD")
         => (ts_rx = <<>> /\ hc.rx_buf = <<>>)
    /\ (ev.cb = "rx" /\ ev.pre \in {"WAIT_APP_REPLY", "APP_IO_MORE_DATA"})
         => ts_rx = <<>>
    /\ (ev.cb = "rx" /\ Ran("client_io_more_data") /\ hc.http_state = "WAIT_APP_REPLY")
         => ts_rx = <<>>

\* the log of the message being received: its header, and the bytes
\* enqueued for it
RECURSIVE LogBytes(_, _)
LogBytes(log, i) ==
  IF i > Len(log) THEN 0
  ELSE (IF log[i].k = "data" THEN Len(log[i].bytes) ELSE 0) + LogBytes(log, i + 1)
HeaderFirst == Len(app_rx_log) > 0 /\ app_rx_log[1].k = "msg"
\* body bytes enqueued on the app rx queue for the message being received
BodyEnqueued == LogBytes(app_rx_log, 1) - hc.control_data_len
\* the last step was a pass of the rx path that enqueued on the app rx queue
RxEnqueued == ev.cb = "rx" /\ Did("as_rx_enq")
\* the last step reported the transaction complete: the rx path moved the
\* connection on to the state where the application acts
RxCompleted ==
  /\ ev.cb = "rx"
  /\ \E i \in 1..Len(ev.trans) :
       /\ ev.trans[i][1] \in {"WAIT_CLIENT_METHOD", "WAIT_SERVER_REPLY", "CLIENT_IO_MORE_DATA"}
       /\ ev.trans[i][2] = (IF hc.is_server THEN "WAIT_APP_REPLY" ELSE "WAIT_APP_METHOD")
  /\ ev.res[Len(ev.res)][2] = "STOP"

\* C3: for a message whose header reached the application, the body bytes
\* enqueued on the app rx queue are never more than the parsed body_len, and
\* are exactly body_len when the transaction is reported complete (server
\* and client).
C3_BodyBytesEqualBodyLen ==
  /\ (RxEnqueued /\ HeaderFirst) => BodyEnqueued <= hc.body_len
  /\ (RxCompleted /\ HeaderFirst) => BodyEnqueued = hc.body_len

\* position in the received stream of the byte after entry i of the log
LogEnd(i) == app_rx_log[i].pos + Len(app_rx_log[i].bytes)

\* C4: the app rx queue receives, for each message, the handoff header,
\* then the control data, then the body bytes in the order they arrived:
\* whenever the rx path enqueues, the message's header came first, exactly
\* once, and every later entry continues the stream where the one before
\* ended.
C4_AppRxOrder ==
  RxEnqueued =>
    /\ HeaderFirst
    /\ \A i \in 2..Len(app_rx_log) : app_rx_log[i].k = "data"
    /\ \A i \in 3..Len(app_rx_log) : app_rx_log[i].pos = LogEnd(i - 1)

\* a pass of CLIENT_IO_MORE_DATA
IoPass == ev.cb = "rx" /\ ev.pre = "CLIENT_IO_MORE_DATA" /\ Ran("client_io_more_data")

\* C5 (safety part): a CLIENT_IO_MORE_DATA pass that finds the app rx queue
\* full registers a dequeue notification, takes nothing from the transport
\* rx queue and leaves to_recv and http_state as they were; a pass that
\* moves bytes strictly decreases to_recv.
C5_RxBackpressure ==
  /\ (IoPass /\ ev.pre_as_rx = AppRxSize /\ ev.pre_ts_rx > 0) =>
       /\ as_rx_ntf
       /\ Len(ts_rx) = ev.pre_ts_rx
       /\ hc.to_recv = ev.pre_to_recv
       /\ hc.http_state = "CLIENT_IO_MORE_DATA"
  /\ (IoPass /\ Did("as_rx_enq")) => hc.to_recv < ev.pre_to_recv

\* C6: http_state = WAIT_CLIENT_METHOD implies to_recv = 0, in every state.
C6_WaitClientMethodNothingToReceive ==
  hc.http_state = "WAIT_CLIENT_METHOD" => hc.to_recv = 0

\* C6, amended: http_state = WAIT_CLIENT_METHOD implies to_recv = 0 in every
\* state whose phase is not CLOSED.
C6_Amended ==
  (hc.http_state = "WAIT_CLIENT_METHOD" /\ hc.state # "CLOSED") => hc.to_recv = 0

\* a server that received a request with a body and sent its reply is back
\* in WAIT_CLIENT_METHOD, still open
C6_Witness ==
  /\ alloc = "conn"
  /\ ev.cb = "tx"
  /\ \E i \in 1..Len(ev.trans) : ev.trans[i][2] = "WAIT_CLIENT_METHOD"
  /\ hc.http_state = "WAIT_CLIENT_METHOD"
  /\ hc.state \in {"ESTABLISHED", "TRANSPORT_CLOSED", "APP_CLOSED"}
  /\ hc.body_len > 0
  /\ hc.to_recv = 0

\* C7: a connection whose phase is ESTABLISHED or later never has
\* http_state = IDLE; accept leaves it ESTABLISHED / WAIT_CLIENT_METHOD,
\* connect ESTABLISHED / WAIT_APP_METHOD; the dispatcher never reaches the
\* empty IDLE slot of the handler table.
C7_EstablishedNeverIdle ==
  /\ hc.state \in {"ESTABLISHED", "TRANSPORT_CLOSED", "APP_CLOSED", "CLOSED"}
       => hc.http_state # "IDLE"
  /\ (ev.cb = "accept" /\ alloc = "conn")
       => (hc.state = "ESTABLISHED" /\ hc.http_state = "WAIT_CLIENT_METHOD")
  /\ (ev.cb = "connected" /\ alloc = "conn")
       => (hc.state = "ESTABLISHED" /\ hc.http_state = "WAIT_APP_METHOD")
  /\ ~Ran("idle")
  /\ "null_handler" \notin ev.asserts

\* the dispatcher ran a handler for a connection past ESTABLISHED
C7_Witness ==
  /\ alloc = "conn"
  /\ hc.state \in {"TRANSPORT_CLOSED", "APP_CLOSED"}
  /\ ev.cb \in {"rx", "tx"}
  /\ Len(ev.res) > 0
  /\ hc.http_state # "IDLE"

\* the last n bytes of a queue
LastBytes(q, n) == SubSeq(q, Len(q) - n + 1, Len(q))
\* the minimal error response for the status code the error path chose
ErrorResponse == http_error_template(http_status_code_str(ev.ec))

\* the error path of WAIT_CLIENT_METHOD: the server, in this order,
\* discards all received bytes, enqueues the minimal error response for the
\* parser's status code on the transport tx queue, notifies the application
\* closing and requests transport disconnect; the app rx queue gets nothing
\* and the phase becomes CLOSED.
C8_ErrorPath ==
  (ev.cb = "rx" /\ Returned("wait_client_method", "ERROR")) =>
    /\ ts_rx = <<>>
    /\ ev.ec \in StatusNames
    /\ Len(ts_tx) = ev.pre_ts_tx + Len(ErrorResponse)
    /\ LastBytes(ts_tx, Len(ErrorResponse)) = ErrorResponse
    /\ InOrder("ts_rx_drop_all", "ts_tx_enq")
    /\ InOrder("ts_tx_enq", "closing")
    /\ InOrder("closing", "disconnect")
    /\ ~Did("as_rx_enq")
    /\ as_rx_len = ev.pre_as_rx
    /\ hc.state = "CLOSED"

\* C8: a request that the app rx queue has no room for (the handoff header
\* and the control data) is a failure of WAIT_CLIENT_METHOD, and on every
\* failure the server discards all received bytes, enqueues the minimal
\* error response for the failing step's status code, notifies the
\* application closing and requests transport disconnect, in this order;
\* nothing is enqueued on the app rx queue and the phase becomes CLOSED.
C8_ServerParseFailure ==
  /\ C8_ErrorPath
  /\ (/\ ev.cb = "rx"
      /\ ev.pre = "WAIT_CLIENT_METHOD"
      /\ ev.pre_ts_rx >= 8
      /\ Ran("wait_client_method")
      /\ AppRxSize - ev.pre_as_rx < MsgSize + hc.control_data_len)
       => Returned("wait_client_method", "ERROR")

\* the error path of WAIT_SERVER_REPLY: the client enqueues nothing
\* on the transport tx queue or the app rx queue, discards the received
\* bytes, notifies the application closing and then closed, and requests
\* transport disconnect.
C9_ErrorPath ==
  (ev.cb = "rx" /\ Returned("wait_server_reply", "ERROR")) =>
    /\ ts_rx = <<>>
    /\ Len(ts_tx) = ev.pre_ts_tx
    /\ ~Did("ts_tx_enq")
    /\ ~Did("as_rx_enq")
    /\ as_rx_len = ev.pre_as_rx
    /\ InOrder("ts_rx_drop_all", "closing")
    /\ InOrder("closing", "closed")
    /\ InOrder("closed", "disconnect")
    /\ hc.state = "CLOSED"

\* C9: a reply that the app rx queue has no room for (the handoff header and
\* the control data) is a failure of WAIT_SERVER_REPLY, and on every failure
\* the client enqueues nothing on the transport tx queue or the app rx queue,
\* discards the received bytes, notifies the application closing and then
\* closed, and requests transport disconnect.
C9_ClientParseFailure ==
  /\ C9_ErrorPath
  /\ (/\ ev.cb = "rx"
      /\ ev.pre = "WAIT_SERVER_REPLY"
      /\ ev.pre_ts_rx >= 8
      /\ Ran("wait_server_reply")
      /\ AppRxSize - ev.pre_as_rx < MsgSize + hc.control_data_len)
       => Returned("wait_server_reply", "ERROR")

\* what the core accepts from the application, by role
InvalidReply(m) ==
  \/ m.type # "REPLY"
  \/ m.dtype \notin {"INLINE", "PTR"}
  \/ InvalidStatus(m.code)
InvalidRequest(m) ==
  \/ m.type # "REQUEST"
  \/ m.dtype \notin {"INLINE", "PTR"}
  \/ m.method_type \notin {"GET", "POST"}
  \/ (m.method_type = "GET" /\ m.body_len # 0)
  \/ (m.method_type = "POST" /\ m.body_len = 0)
\* the tx callback found an application message at the head of the app tx
\* queue, in the state that reads one, and the message is invalid
InvalidAppMessage ==
  /\ ev.cb = "tx"
  /\ ev.msg.type # "NONE"
  /\ \/ ev.pre = "WAIT_APP_REPLY" /\ Ran("wait_app_reply") /\ InvalidReply(ev.msg)
     \/ ev.pre = "WAIT_APP_METHOD" /\ Ran("wait_app_method") /\ InvalidRequest(ev.msg)

\* C10: an invalid application message, on the server path (WAIT_APP_REPLY)
\* as on the client path (WAIT_APP_METHOD), makes the core drop every
\* remaining byte of the app tx queue, notify the application of closing and
\* then of closed, and request the transport disconnect.
C10_InvalidAppMessageTeardown ==
  InvalidAppMessage =>
    /\ as_tx = <<>>
    /\ Did("as_tx_drop_all")
    /\ InOrder("as_tx_drop_all", "closing")
    /\ InOrder("closing", "closed")
    /\ InOrder("closed", "disconnect")

(* ------------------------------------------------------------------ *)
(* Cancellation, teardown and queue roles                               *)
(* ------------------------------------------------------------------ *)
\* C11: when the transport reports a reset, in any http_state and on either
\* role, the phase becomes CLOSED, the tx buffer is freed, http_state is
\* WAIT_CLIENT_METHOD, the application is notified of the reset and the
\* transport disconnect is requested; the callback enqueues no byte on any
\* queue.
C11_TransportReset ==
  ev.cb = "reset" =>
    /\ hc.state = "CLOSED"
    /\ hc.tx_buf = NoTxBuf
    /\ hc.http_state = "WAIT_CLIENT_METHOD"
    /\ Did("reset")
    /\ Did("disconnect")
    /\ ~Did("ts_tx_enq") /\ ~Did("as_rx_enq")
    /\ Len(ts_tx) = ev.pre_ts_tx
    /\ Len(ts_rx) = ev.pre_ts_rx
    /\ as_rx_len = ev.pre_as_rx
\* a reset arrives while a body is being sent from an allocated tx buffer
C11_Witness ==
  /\ ev.cb = "reset"
  /\ ev.pre = "APP_IO_MORE_DATA"
  /\ hc.tx_buf = NoTxBuf

\* C12 as stated: the three cancellation paths (application close,
\* transport disconnect or reset, idle-timer expiry) produce the same
\* teardown sequence: the application is notified of closing and then of
\* closed, the transport disconnect is requested, and none of them frees the
\* record.
Cancellation ==
  \/ ev.cb = "close" /\ ev.pre_state # "CLOSED"
  \/ ev.cb = "disconnect"
  \/ ev.cb = "reset"
  \/ ev.cb = "timeout" /\ ~Did("already_deleted") /\ ~Did("timer_not_pending")
C12_SameTeardownSequence ==
  Cancellation =>
    /\ InOrder("closing", "closed")
    /\ Did("disconnect")
    /\ ~Did("conn_free")

\* C12: what each cancellation path does. Application close: nothing when
\* the phase is CLOSED already; closed then disconnect (phase CLOSED) when
\* the app tx queue is empty; otherwise only phase APP_CLOSED. Transport
\* disconnect: phase TRANSPORT_CLOSED unless the phase was past ESTABLISHED,
\* closing notified exactly when the transport rx queue is empty, no
\* disconnect requested. Transport reset: reset notified, disconnect
\* requested, phase CLOSED. Idle-timer expiry: closing then disconnect, phase
\* CLOSED. No path notifies closing and then closed, and none frees the
\* record.
C12_Amended ==
  /\ (ev.cb = "close" /\ ev.pre_state = "CLOSED") => ev.ops = <<>> /\ hc.state = "CLOSED"
  /\ (ev.cb = "close" /\ ev.pre_state = "CONNECTING") =>
       ev.ops = <<"disconnect">> /\ hc.state = "CLOSED"
  /\ (ev.cb = "close" /\ ev.pre_state \notin {"CLOSED", "CONNECTING"} /\ as_tx = <<>>) =>
       ev.ops = <<"closed", "disconnect">> /\ hc.state = "CLOSED"
  /\ (ev.cb = "close" /\ ev.pre_state \notin {"CLOSED", "CONNECTING"} /\ as_tx # <<>>) =>
       ev.ops = <<>> /\ hc.state = "APP_CLOSED"
  /\ ev.cb = "disconnect" =>
       /\ ev.ops = IF ts_rx = <<>> THEN <<"closing">> ELSE <<>>
       /\ hc.state = IF ev.pre_state \in {"LISTEN", "CONNECTING", "ESTABLISHED"}
                     THEN "TRANSPORT_CLOSED" ELSE ev.pre_state
  /\ ev.cb = "reset" =>
       /\ InOrder("reset", "disconnect")
       /\ ~Did("closing") /\ ~Did("closed")
       /\ hc.state = "CLOSED"
  /\ (ev.cb = "timeout" /\ ~Did("already_deleted") /\ ~Did("timer_not_pending")) =>
       ev.ops = <<"closing", "disconnect">> /\ hc.state = "CLOSED"
  /\ Cancellation => ~InOrder("closing", "closed") /\ ~Did("conn_free") /\ alloc = "conn"
\* the idle timer expired on a live connection and the deferred callback
\* closed it
C12_Witness ==
  /\ ev.cb = "timeout"
  /\ Did("closing")
  /\ ev.pre_state = "ESTABLISHED"
  /\ hc.state = "CLOSED"

\* C13: whenever a handler returns ERROR, the connection is being torn down:
\* the transport disconnect has been requested and the phase is CLOSED; and
\* the dispatcher invokes no further handler in that run.
HandlerError == \E i \in 1..Len(ev.res) : ev.res[i][2] = "ERROR"
C13_ErrorMeansTeardown ==
  HandlerError =>
    /\ Did("disconnect")
    /\ hc.state = "CLOSED"
    /\ \A i \in 1..Len(ev.res) : ev.res[i][2] = "ERROR" => i = Len(ev.res)

\* C14: the four queues keep their single-producer/single-consumer roles: no
\* callback of the core dequeues or drops from the transport tx queue or the
\* app rx queue, and none enqueues on the transport rx queue or the app tx
\* queue; bytes on the transport tx queue are removed by the transport only.
C14_QueueRoles ==
  ev.cb # "init" =>
    /\ Len(ts_tx) >= ev.pre_ts_tx
    /\ as_rx_len >= ev.pre_as_rx
    /\ Len(ts_rx) <= ev.pre_ts_rx

\* C15: the connection record is freed only by the cleanup callback called
\* with the SESSION notification, and only after the application was
\* notified of the delete; the cleanup callback called with the TRANSPORT
\* notification frees nothing and changes no field of the record; once the
\* record is freed no callback writes it.
C15_FreedOnlyBySessionCleanup ==
  [][/\ (alloc # "freed" /\ alloc' = "freed") =>
          (ev.cb = "cleanup_SESSION" /\ InOrder("delete", "conn_free"))'
     /\ (ev.cb = "cleanup_TRANSPORT")' => (hc' = hc /\ alloc' = alloc)
     /\ alloc = "freed" => (hc' = hc /\ alloc' = "freed")]_vars
\* the deferred timer callback arrives after the record was freed
C15_Witness ==
  /\ alloc = "freed"
  /\ ev.cb = "timeout"
  /\ Did("already_deleted")

\* C16: the send side does not deadlock. A pass of the APP_IO_MORE_DATA
\* handler that leaves the tx buffer undrained deschedules the connection
\* and asks for a dequeue notification exactly when the transport tx queue
\* has less than HTTP_FIFO_THRESH free; and a descheduled connection gets
\* its notification, because the transport tx queue it waits on is not
\* empty (or the notification is already posted).
C16_SendSideNoDeadlock ==
  /\ (ev.cb = "tx" /\ Returned("app_io_more_data", "STOP")
        /\ hc.http_state = "APP_IO_MORE_DATA") =>
       (Did("deschedule") <=> TsTxSize - Len(ts_tx) < HTTP_FIFO_THRESH)
  /\ (alloc = "conn" /\ hc.http_state = "APP_IO_MORE_DATA" /\ sess.desched) =>
       (Len(ts_tx) > 0 \/ sess.deq_ntf)

(* ------------------------------------------------------------------ *)
(* Parsing                                                              *)
(* ------------------------------------------------------------------ *)
\* the rx callback ran the WAIT_CLIENT_METHOD handler on a transport rx
\* queue that held exactly "GE /x HTTP/1.1\r\n\r\n"
BadMethodReceived ==
  /\ ev.cb = "rx"
  /\ ev.pre = "WAIT_CLIENT_METHOD"
  /\ Ran("wait_client_method")
  /\ peer.data = ReqBadMethod
  /\ peer.pos = Len(ReqBadMethod)
  /\ ev.pre_ts_rx = Len(ReqBadMethod)
\* the bytes the callback enqueued on the transport tx queue
EnqueuedOnTsTx == Drop(ts_tx, ev.pre_ts_tx)
Response(code) == http_error_template(http_status_code_str(code))

\* C17 as stated: for the input "GE /x HTTP/1.1\r\n\r\n" received by a
\* server in WAIT_CLIENT_METHOD, the error response enqueued on the transport
\* tx queue carries status 400 Bad Request, and the connection is then
\* closed.
C17_BadMethodIs400 ==
  BadMethodReceived =>
    /\ ev.ec = "BAD_REQUEST"
    /\ EnqueuedOnTsTx = Take(Response("BAD_REQUEST"), Len(EnqueuedOnTsTx))
    /\ hc.state = "CLOSED"

\* C17: for that input the handler answers 501 Not Implemented: the bytes
\* enqueued on the transport tx queue are the 501 error response, or as
\* much of its beginning as the queue had room for, and the connection is
\* then closed (closing notified, disconnect requested, phase CLOSED).
C17_Amended ==
  BadMethodReceived =>
    /\ ev.ec = "NOT_IMPLEMENTED"
    /\ Returned("wait_client_method", "ERROR")
    /\ Len(EnqueuedOnTsTx) = Min(Len(Response("NOT_IMPLEMENTED")), TsTxSize - ev.pre_ts_tx)
    /\ EnqueuedOnTsTx = Take(Response("NOT_IMPLEMENTED"), Len(EnqueuedOnTsTx))
    /\ InOrder("closing", "disconnect")
    /\ hc.state = "CLOSED"
\* the whole 501 response was enqueued
C17_Witness ==
  /\ BadMethodReceived
  /\ EnqueuedOnTsTx = Response("NOT_IMPLEMENTED")

\* the rx callback ran the WAIT_SERVER_REPLY handler on a transport rx queue
\* that held exactly the peer's reply
ReplyParsed ==
  /\ ev.cb = "rx"
  /\ ev.pre = "WAIT_SERVER_REPLY"
  /\ Ran("wait_server_reply")
  /\ peer.pos = Len(peer.data)
  /\ ev.pre_ts_rx = Len(peer.data)
\* the decimal value of a string of digits, unbounded
RECURSIVE DecValue(_)
DecValue(d) ==
  IF d = <<>> THEN 0 ELSE 10 * DecValue(SubSeq(d, 1, Len(d) - 1)) + DigitVal(d[Len(d)])
\* the Content-Length digits of the peer's reply
LengthDigits == SubSeq(peer.data, 32, Len(peer.data) - 4)

\* C18: Content-Length parsing is overflow-safe: a digit string whose value
\* exceeds the largest u64 value makes the parse fail (the client's error
\* path), and one whose value does not gives body_len its value.
C18_ContentLengthOverflowSafe ==
  (ReplyParsed /\ SubSeq(peer.data, 10, 12) = <<"2", "0", "0">>) =>
    IF DecValue(LengthDigits) > U64Mod - 1
    THEN Returned("wait_server_reply", "ERROR")
    ELSE ~Returned("wait_server_reply", "ERROR") /\ hc.body_len = DecValue(LengthDigits)

\* the status code of the peer's reply, as a number
StatusSent == DecValue(SubSeq(peer.data, 10, 12))
\* the number of a registered status code
CodeNumber(name) == StatusTable[CHOOSE i \in 1..Len(StatusTable) : StatusTable[i][2] = name][1]
Registered(c) == \E i \in 1..Len(StatusTable) : StatusTable[i][1] = c

\* C19: for every status code c in 100..599, which the status-line parser
\* accepts, the code delivered to the application is c itself when c is
\* registered and the code of its hundred (100, 200, 300, 400, 500)
\* otherwise; the index of the table lookup is within the table's 600
\* entries.
C19_StatusCodeBucketing ==
  (ReplyParsed /\ LengthDigits = <<"0">> /\ StatusSent \in 100..599) =>
    /\ ~Returned("wait_server_reply", "ERROR")
    /\ hc.status_code = StatusSent
    /\ hc.status_code \in 0..599
    /\ HeaderFirst
    /\ app_rx_log[1].m.type = "REPLY"
    /\ app_rx_log[1].m.code \in StatusNames
    /\ CodeNumber(app_rx_log[1].m.code) =
         IF Registered(StatusSent) THEN StatusSent ELSE 100 * (StatusSent \div 100)
\* an unregistered code was delivered as the code of its hundred
C19_Witness ==
  /\ ReplyParsed
  /\ LengthDigits = <<"0">>
  /\ StatusSent = 299
  /\ HeaderFirst
  /\ app_rx_log[1].m.code = "OK"

\* a callback ran the WAIT_CLIENT_METHOD handler first, on an ESTABLISHED
\* connection
ClientMethodTried ==
  /\ ev.cb \in {"rx", "tx"}
  /\ ev.pre = "WAIT_CLIENT_METHOD"
  /\ ev.pre_state = "ESTABLISHED"
  /\ Ran("wait_client_method")
\* the handler parked the connection and touched nothing
NothingDone ==
  /\ Returned("wait_client_method", "STOP")
  /\ hc.state = "ESTABLISHED"
  /\ hc.http_state = "WAIT_CLIENT_METHOD"
  /\ Len(ts_rx) = ev.pre_ts_rx
  /\ Len(ts_tx) = ev.pre_ts_tx
  /\ as_rx_len = ev.pre_as_rx
  /\ ~Did("ts_tx_enq") /\ ~Did("as_rx_enq") /\ ~Did("closing") /\ ~Did("disconnect")

\* C20 as stated: in WAIT_CLIENT_METHOD, when the transport rx queue holds
\* fewer than 8 bytes the handler returns STOP: the connection stays
\* ESTABLISHED in WAIT_CLIENT_METHOD, no byte is consumed, nothing is sent.
C20_ShortInputWaits ==
  (ClientMethodTried /\ ev.pre_ts_rx < 8) => NothingDone

\* C20: in WAIT_CLIENT_METHOD, when the transport rx queue holds 1 to 7
\* bytes the handler does not wait for more: it takes its error path, which
\* drops every received byte, enqueues the 400 Bad Request response (as much
\* of it as the transport tx queue has room for), notifies closing and
\* requests the disconnect, leaving the phase CLOSED; parsing is not
\* attempted again. The handler never parks the connection with nothing
\* consumed and nothing sent when the queue holds a byte. An rx event on an ESTABLISHED connection in
\* WAIT_CLIENT_METHOD always runs the handler.
C20_Amended ==
  /\ (ClientMethodTried /\ ev.pre_ts_rx \in 1..7) =>
       /\ Returned("wait_client_method", "ERROR")
       /\ ev.ec = "BAD_REQUEST"
       /\ ts_rx = <<>>
       /\ Len(EnqueuedOnTsTx) = Min(Len(Response("BAD_REQUEST")), TsTxSize - ev.pre_ts_tx)
       /\ EnqueuedOnTsTx = Take(Response("BAD_REQUEST"), Len(EnqueuedOnTsTx))
       /\ InOrder("closing", "disconnect")
       /\ hc.state = "CLOSED"
  /\ (ClientMethodTried /\ ev.pre_ts_rx > 0) => ~NothingDone
  /\ (ev.cb = "rx" /\ ev.pre = "WAIT_CLIENT_METHOD" /\ ev.pre_state = "ESTABLISHED") =>
       Ran("wait_client_method")
\* the first five bytes of a request arrived alone and the connection was
\* closed
C20_Witness ==
  /\ ClientMethodTried
  /\ ev.pre_ts_rx = 5
  /\ hc.state = "CLOSED"

\* ---------------------------------------------------------------------
\* Handoff room, to_recv, and the send side
\* ---------------------------------------------------------------------

\* the last step ran http_state_wait_client_method on received bytes
ServerHandoffTried ==
  /\ ev.cb = "rx"
  /\ ev.pre = "WAIT_CLIENT_METHOD"
  /\ ev.pre_ts_rx > 0
  /\ Ran("wait_client_method")

\* C21: in WAIT_CLIENT_METHOD the handoff is enqueued only when the app rx
\* queue has room for the handoff header and the control data, and fails
\* with an error otherwise: the enqueue of header plus len bytes succeeds
\* in full for every occupancy of the app rx queue, so a run of the handler
\* that does not end with ERROR has enqueued the header and len bytes.
C21_HandoffEnqueueInFull ==
  ServerHandoffTried =>
    /\ "handoff_enqueue" \notin ev.asserts
    /\ ~HandlerError =>
         /\ Did("as_rx_enq")
         /\ as_rx_len = ev.pre_as_rx + MsgSize + LogBytes(app_rx_log, 1)

\* the last step was the initial handoff of a message: the handler of
\* WAIT_CLIENT_METHOD or WAIT_SERVER_REPLY enqueued header and bytes
InitialHandoff ==
  /\ ev.cb = "rx"
  /\ ev.pre \in {"WAIT_CLIENT_METHOD", "WAIT_SERVER_REPLY"}
  /\ Did("as_rx_enq")
  /\ HeaderFirst

\* C22: after the initial handoff, to_recv is body_len minus the body bytes
\* handed off and lies between 0 and body_len (the subtraction never
\* wraps); while the connection is in CLIENT_IO_MORE_DATA, to_recv is
\* positive and at most body_len.
C22_ToRecvWithinBodyLen ==
  /\ InitialHandoff =>
       /\ hc.to_recv <= hc.body_len
       /\ hc.to_recv = hc.body_len - BodyEnqueued
  /\ (alloc = "conn" /\ hc.http_state = "CLIENT_IO_MORE_DATA") =>
       /\ hc.to_recv > 0
       /\ hc.to_recv <= hc.body_len

\* the tx callback read a valid application message in WAIT_APP_REPLY or
\* WAIT_APP_METHOD and its handler took the error path: the transport tx
\* queue accepted fewer bytes than the formatted control data
ShortControlSend ==
  /\ ev.cb = "tx"
  /\ ev.msg.type # "NONE"
  /\ \/ ev.pre = "WAIT_APP_REPLY" /\ Ran("wait_app_reply") /\ ~InvalidReply(ev.msg)
     \/ ev.pre = "WAIT_APP_METHOD" /\ Ran("wait_app_method") /\ ~InvalidRequest(ev.msg)
  /\ Did("closing")

\* C23: when the transport tx queue accepts fewer bytes than the formatted
\* status or request line plus headers, no part of the control data is left
\* on the transport tx queue, the transport disconnect is requested and the
\* phase is CLOSED, and the body is never streamed: APP_IO_MORE_DATA is not
\* entered and no tx buffer stays initialised.
C23_ControlDataSentAtomically ==
  ShortControlSend =>
    /\ Len(ts_tx) = ev.pre_ts_tx
    /\ Did("disconnect")
    /\ hc.state = "CLOSED"
    /\ hc.http_state # "APP_IO_MORE_DATA"
    /\ ~hc.tx_buf.init

\* the last step was a run of the app-tx callback that reached a handler
TxRun == ev.cb = "tx" /\ Len(ev.res) > 0

\* C24: during one app-tx callback the scheduler's byte budget is reduced
\* by exactly the bytes the handlers enqueued on the transport tx queue and
\* never underflows: the assertion max_burst_size >= sent of WAIT_APP_REPLY
\* holds, and what is left of the budget is the budget granted minus the
\* bytes enqueued.
C24_BudgetAccounting ==
  TxRun =>
    /\ "max_burst_size" \notin ev.asserts
    /\ \E n \in BurstChoices :
         /\ Len(ts_tx) - ev.pre_ts_tx <= n * TRANSPORT_PACER_MIN_MSS
         /\ ev.sp.max_burst_size = n * TRANSPORT_PACER_MIN_MSS - (Len(ts_tx) - ev.pre_ts_tx)

\* bytes the last step enqueued on the transport tx queue
BytesSent == Len(ts_tx) - ev.pre_ts_tx

\* C25: the app-tx callback returns 0 exactly when no byte was enqueued on
\* the transport tx queue during the call, whichever handler ran, on the
\* server and on the client path; otherwise it returns the bytes sent in
\* MSS units, rounded up, at least 1.
C25_TxCallbackReturn ==
  ev.cb = "tx" =>
    /\ ev.ret = 0 <=> BytesSent = 0
    /\ BytesSent > 0 =>
         ev.ret = (BytesSent + TRANSPORT_PACER_MIN_MSS - 1) \div TRANSPORT_PACER_MIN_MSS

(* ------------------------------------------------------------------ *)
(* Callback frames, application close and the idle timer                *)
(* ------------------------------------------------------------------ *)
\* the rx callback found the phase CLOSED or an http_state that does not
\* receive
RxRefused ==
  /\ ev.cb = "rx"
  /\ \/ ev.pre_state = "CLOSED"
     \/ ev.pre \notin {"WAIT_CLIENT_METHOD", "WAIT_SERVER_REPLY", "CLIENT_IO_MORE_DATA"}

\* C26: an rx callback on a connection whose phase is CLOSED or whose
\* http_state is not WAIT_CLIENT_METHOD, WAIT_SERVER_REPLY or
\* CLIENT_IO_MORE_DATA drops all bytes of the app tx queue, runs no handler
\* and leaves http_state, to_recv, the idle timer and the transport tx
\* queue unchanged; any other rx callback runs the state machine.
C26_RxCallbackFrame ==
  ev.cb = "rx" =>
    /\ RxRefused =>
         /\ as_tx = <<>>
         /\ Len(ev.res) = 0
         /\ hc.http_state = ev.pre
         /\ hc.to_recv = ev.pre_to_recv
         /\ ~Did("timer_update") /\ ~Did("timer_start") /\ ~Did("timer_stop")
         /\ Len(ts_tx) = ev.pre_ts_tx
    /\ ~RxRefused => Len(ev.res) > 0

\* C27: application close changes nothing on a CLOSED connection, requests
\* the disconnect on a CONNECTING one, notifies closed and requests the
\* disconnect at once when the app tx queue is empty, and otherwise only
\* sets the phase APP_CLOSED; the disconnect is then requested once the app
\* tx queue has been drained, whatever the http_state: a tx callback that
\* leaves the app tx queue of an APP_CLOSED connection empty has requested
\* the disconnect.
C27_AppCloseDrainsThenDisconnects ==
  /\ (ev.cb = "close" /\ ev.pre_state = "CLOSED") => ~Did("disconnect") /\ ~Did("closed")
  /\ (ev.cb = "close" /\ ev.pre_state = "CONNECTING") => Did("disconnect")
  /\ (ev.cb = "close" /\ ev.pre_state \notin {"CLOSED", "CONNECTING"}) =>
       IF as_tx = <<>> THEN InOrder("closed", "disconnect")
       ELSE hc.state = "APP_CLOSED" /\ ~Did("disconnect")
  /\ (ev.cb = "tx" /\ ev.pre_state = "APP_CLOSED" /\ as_tx = <<>>) =>
       Did("disconnect") /\ hc.state = "CLOSED"

\* the last step was a run of the dispatcher
DispatcherRan == Len(ev.res) > 0

C29_TimerExpiryTwoSteps ==
  [][/\ (ev.cb = "invalidate_timer")' =>
          /\ hc' = IF alloc = "conn"
                   THEN [hc EXCEPT !.timer_handle = "INVALID", !.pending_timer = 1]
                   ELSE hc
          /\ sess' = [sess EXCEPT !.timer = "expired"]
          /\ ev'.ops = <<>>
          /\ UNCHANGED <<alloc, ts_rx, rx_pos, ts_tx, as_rx_len, as_rx_ntf, app_rx_log,
                         as_tx, ts_tx_ntf>>
     /\ (ev.cb = "timeout")' =>
          IF alloc = "conn" /\ hc.pending_timer = 1
          THEN InOrder("closing", "disconnect")' /\ alloc' = alloc
          ELSE /\ ~Did("closing")' /\ ~Did("disconnect")'
               /\ hc' = hc
               /\ UNCHANGED <<alloc, ts_rx, ts_tx, as_rx_len, as_tx>>
     /\ (ev.cb \in {"cleanup_SESSION", "cleanup_TRANSPORT"})' =>
          /\ Did("timer_stop")' => hc.pending_timer = 0
          /\ (ev'.cb = "cleanup_SESSION" /\ hc.pending_timer = 0 /\ hc.timer_handle = "SET")
               => Did("timer_stop")']_vars
\* the record was cleaned up between the two steps of an expiry: the timer
\* was not cancelled and the deferred callback is still to come
C29_Witness ==
  /\ ev.cb = "cleanup_SESSION"
  /\ alloc = "freed"
  /\ hc.pending_timer = 1
  /\ sess.timer = "expired"
  /\ ~Did("timer_stop")

\* the tx callback ran a connection in WAIT_APP_REPLY or WAIT_APP_METHOD
\* whose app tx queue did not start with a whole handoff header
HeaderMissing ==
  /\ ev.cb = "tx"
  /\ ev.pre \in {"WAIT_APP_REPLY", "WAIT_APP_METHOD"}
  /\ DispatcherRan
  /\ ev.msg.type = "NONE"

\* C30: when the app-tx callback runs a connection in WAIT_APP_REPLY or
\* WAIT_APP_METHOD whose app tx queue holds no complete handoff header, the
\* handler returns STOP without changing http_state or sending anything; the
\* header dequeue is never attempted on fewer bytes than a header, so the
\* assertion on its return value holds in every reachable state.
C30_NoHeaderMeansStop ==
  /\ ev.cb = "tx" => "msg_dequeue" \notin ev.asserts
  /\ HeaderMissing =>
       /\ ev.res \in {<<<<"wait_app_reply", "STOP">>>>, <<<<"wait_app_method", "STOP">>>>}
       /\ hc.http_state = ev.pre
       /\ Len(ts_tx) = ev.pre_ts_tx

(* ------------------------------------------------------------------ *)
(* Request line, offsets, identity strings                              *)
(* ------------------------------------------------------------------ *)
\* the rx callback ran http_state_wait_client_method on a whole request of
\* the family ReqParse
RequestLineTried ==
  /\ ev.cb = "rx"
  /\ ev.pre = "WAIT_CLIENT_METHOD"
  /\ Ran("wait_client_method")
  /\ \E m \in RequestPeerMsgs : peer.data = m.data
  /\ peer.pos = Len(peer.data)
  /\ ev.pre_ts_rx = Len(peer.data)
\* the method token of the request is one the parser accepts
MethodAccepted ==
  \/ MemEq(peer.data, 0, <<"G", "E", "T", SP>>)
  \/ MemEq(peer.data, 0, <<"P", "O", "S", "T", SP>>)
\* the byte after " HTTP/"
MajorVersion == At(peer.data, v_find_index(peer.data, 0, 0, <<SP, "H", "T", "T", "P", "/">>) + 6)

\* C31: a request line whose method token is neither GET nor POST is
\* rejected with NotImplemented when the first byte of the method is an
\* uppercase ASCII letter and with BadRequest for every other byte; an
\* accepted method followed by HTTP/ and a digit other than 1 is rejected
\* with HttpVersionNotSupported, and by a non-digit with BadRequest.
C31_RequestLineRejection ==
  RequestLineTried =>
    /\ ~MethodAccepted =>
         /\ HandlerError
         /\ ev.ec = IF At(peer.data, 0) \in UpperCase THEN "NOT_IMPLEMENTED"
                    ELSE "BAD_REQUEST"
    /\ (MethodAccepted /\ isdigit(MajorVersion) /\ MajorVersion # "1") =>
         HandlerError /\ ev.ec = "HTTP_VERSION_NOT_SUPPORTED"
    /\ (MethodAccepted /\ ~isdigit(MajorVersion)) =>
         HandlerError /\ ev.ec = "BAD_REQUEST"

\* the handoff header of the message being received
HandoffMsg == app_rx_log[1].m

\* C32: for every message parsed and handed off, request or reply, with or
\* without headers, with or without Content-Length, first or later on the
\* connection, the body_offset of the handoff header equals
\* control_data_len, and headers_offset + headers_len + 2 = body_offset
\* whenever body_len > 0.
C32_BodyOffsetIsControlDataLen ==
  InitialHandoff =>
    /\ HandoffMsg.body_offset = hc.control_data_len
    /\ HandoffMsg.body_len > 0 =>
         HandoffMsg.headers_offset + HandoffMsg.headers_len + 2 = HandoffMsg.body_offset

\* the last step formatted a reply: WAIT_APP_REPLY took a valid message
ReplyFormatted ==
  /\ ev.cb = "tx" /\ Ran("wait_app_reply")
  /\ ev.pre = "WAIT_APP_REPLY"
  /\ ~InvalidReply(ev.msg)

\* C33: the lifetime of a listener is independent of the connections it
\* accepted: after http_stop_listen freed the listener and its app_name,
\* a connection accepted before formats its replies with an app_name of
\* its own, never with the freed vector.
C33_AppNameOutlivesListener ==
  (ReplyFormatted /\ sess.listener = "freed") => hc.app_name # "lhc"

\* C34: once the connection is CLOSED no handler of the state machine is
\* dispatched again and no further byte is enqueued on the transport tx
\* queue or the application rx queue, whether the later event is the rx
\* callback or the application's tx callback.
C34_ClosedIsFinal ==
  (ev.cb \in {"rx", "tx"} /\ ev.pre_state = "CLOSED") =>
    /\ ~DispatcherRan
    /\ Len(ts_tx) <= ev.pre_ts_tx
    /\ as_rx_len <= ev.pre_as_rx

\* C35: the transport disconnect is requested at most once per connection,
\* whatever the interleaving of handler error paths, the application's
\* close, a reset and the expiry of the idle timer.
C35_DisconnectAtMostOnce == sess.ndisc <= 1

ServerStates == {"WAIT_CLIENT_METHOD", "CLIENT_IO_MORE_DATA", "WAIT_APP_REPLY", "APP_IO_MORE_DATA"}
ClientStates == {"WAIT_APP_METHOD", "APP_IO_MORE_DATA", "WAIT_SERVER_REPLY", "CLIENT_IO_MORE_DATA"}

\* C36: http_state belongs to the role of the connection: a server
\* connection is only ever in WAIT_CLIENT_METHOD, CLIENT_IO_MORE_DATA,
\* WAIT_APP_REPLY or APP_IO_MORE_DATA, a client connection only in
\* WAIT_APP_METHOD, APP_IO_MORE_DATA, WAIT_SERVER_REPLY or CLIENT_IO_MORE_DATA.
C36_StateBelongsToRole ==
  alloc = "conn" =>
    hc.http_state \in (IF hc.is_server THEN ServerStates ELSE ClientStates)

\* the last step requested the disconnect for a connection the application
\* has closed while it was streaming a body
ClosedWhileStreaming ==
  /\ ev.cb \in {"close", "tx"}
  /\ ev.pre = "APP_IO_MORE_DATA"
  /\ sess.app_close
  /\ Did("disconnect")

C38_TxBufIffAppIoMoreData ==
  alloc = "conn" =>
    /\ hc.tx_buf.init <=> hc.http_state = "APP_IO_MORE_DATA"
    /\ ~Did("tx_buf_reinit")

\* the deferred callback of the previous record's timer ran on the record
\* that has the pool slot now
LateTimeout == ev.cb = "late_timeout" /\ alloc = "conn"

C40_DispatcherAtMostTwoHandlers ==
  /\ Len(ev.res) <= 2
  /\ \A i \in 1..Len(ev.res) :
       ev.res[i][2] = "CONTINUE" =>
         /\ ev.res[i][1] \in {"wait_app_reply", "wait_app_method"}
         /\ \E j \in 1..Len(ev.trans) : ev.trans[j][2] = "APP_IO_MORE_DATA"
         /\ i < Len(ev.res)
         /\ ev.res[i + 1][1] = "app_io_more_data"

\* a run of two handlers: the message was sent and the body started
C40_Witness ==
  /\ Len(ev.res) = 2
  /\ ev.res[1][2] = "CONTINUE"
  /\ ev.res[2] = <<"app_io_more_data", "STOP">>
====
